---- MODULE Spec2Model ----
(***************************************************************************)
(* Kernel probes and user-space consumers of the multi-layer I/O tracers.  *)
(*                                                                         *)
(* Two tracer programs of the repository are modelled; `prog` says which   *)
(* one is running:                                                         *)
(*   "multilayer"   multilayer_io_tracer.bpf.c (MinIO-enhanced, the second *)
(*                  program of src/unnamed/part_005) with its consumer     *)
(*                  multilayer_io_tracer.c (src/working_trace.sh);         *)
(*   "minio_tracer" src/minio_tracer.bpf.c with its consumer minio_tracer.c*)
(*                  (src/unnamed/part_009).                                *)
(* Both share the shape: probes fill a ring, the consumer drains it into   *)
(* statistics and a flow table, and prints a summary on exit.              *)
(***************************************************************************)
EXTENDS Integers, Sequences, FiniteSets, TLC

\* ------------------------------------------------------------------ bounds
MaxTime == 3          \* probe firings that read the clock

\* -------------------------------------------------- program constants
\* Table and ring capacities are scaled down so that saturation is reachable.
MAX_ENTRIES == 2      \* 10240 in the source
MAX_REQUESTS == 2     \* 10000 in the source
RingCap == 2          \* events the 1 MiB ring holds
MAX_COMM_LEN == 16
W32 == 8              \* 2^32 scaled: the width of one half of a u64
PAGE_SIZE == 4096
JOURNAL_MAX == 8192

LAYER_APPLICATION == 1
LAYER_STORAGE_SERVICE == 2
LAYER_OPERATING_SYSTEM == 3
LAYER_FILESYSTEM == 4
LAYER_DEVICE == 5

EVENT_APP_READ == 101
EVENT_APP_WRITE == 102
EVENT_OS_VFS_READ == 303
EVENT_OS_VFS_WRITE == 304
EVENT_FS_SYNC == 401
EVENT_DEV_BIO_SUBMIT == 501
EVENT_DEV_BIO_COMPLETE == 502
EVENT_MINIO_OBJECT_PUT == 201
EVENT_MINIO_OBJECT_GET == 202
EVENT_MINIO_ERASURE_WRITE == 203
EVENT_MINIO_MULTIPART == 206
EVENT_MINIO_XL_META == 207
\* minio_tracer.bpf.c numbers its MinIO events differently
MT_EVENT_MINIO_OBJECT_PUT == 110
MT_EVENT_MINIO_OBJECT_GET == 111
MT_EVENT_MINIO_XL_META == 114

SYSTEM_TYPE_UNKNOWN == 0
SYSTEM_TYPE_MINIO == 1
SYSTEM_TYPE_CEPH == 2
SYSTEM_TYPE_ETCD == 3
SYSTEM_TYPE_POSTGRES == 4
SYSTEM_TYPE_GLUSTER == 5
SYSTEM_TYPE_APPLICATION == 6

MINIO_TRACE_OFF == 0
MINIO_TRACE_NAME == 1
MINIO_TRACE_PID == 2
MINIO_TRACE_ALL == 3

U64 == W32 * W32      \* 2^64 scaled

\* ------------------------------------------------------------ strings
\* A comm or path is the sequence of its characters; the bytes after it in
\* the zeroed buffer read as NUL.
NUL == "NUL"
CharAt(s, i) == IF i < Len(s) THEN s[i + 1] ELSE NUL

COMM_MINIO == <<"m", "i", "n", "i", "o">>
COMM_BASH == <<"b", "a", "s", "h">>
\* "multilayer_io_tracer" cut to the 15 characters a comm holds
COMM_MULTILAYER == <<"m", "u", "l", "t", "i", "l", "a", "y", "e", "r", "_", "i", "o", "_", "t">>
COMM_MINIO_TRACER == <<"m", "i", "n", "i", "o", "_", "t", "r", "a", "c", "e", "r">>

PATH_XL_META == <<"x", "l", ".", "m", "e", "t", "a">>
PATH_PART == <<"p", "a", "r", "t", ".", "1">>
PATH_OTHER == <<"d", "a", "t", "a">>
Paths == {PATH_XL_META, PATH_PART, PATH_OTHER}

\* ------------------------------------------------------------- tasks
\* The tasks whose hooks fire: a MinIO server, a second process (a shell, as
\* a rule), and the tracer's own process, whose comm depends on which tracer
\* runs.  pid = tgid, tid = pid.
TracerComm(p) == IF p = "multilayer" THEN COMM_MULTILAYER ELSE COMM_MINIO_TRACER
TaskIds == 1..3
Tasks(p) == [t \in TaskIds |-> IF t = 1 THEN COMM_MINIO
                               ELSE IF t = 2 THEN COMM_BASH ELSE TracerComm(p)]
\* bpf_get_current_pid_tgid(): tgid in the upper half, thread id in the lower
PidTgid(t) == t * W32 + t
PidOf(pid_tgid) == pid_tgid \div W32
TidOf(pid_tgid) == pid_tgid % W32

\* struct bio addresses: kernel pointers, in the upper half of the address
\* space, hence never equal to a pid_tgid (pids stay below 2^22)
BioAddrs == {U64 - 3, U64 - 2, U64 - 1}
\* byte counts of read/write/splice calls; bi_size values of submitted bios
\* (minio_tracer tells those up to 8192 bytes from larger ones, multilayer
\* only copies the size); the residual bi_size bio_endio reads from a bio
\* whose data has moved
Counts == {100}
\* 2^64 scaled for byte counts: large enough to hold some pages, small enough
\* for a count near the top of the range to be enumerated
SizeWord == 16384
\* the counts vfs_write is entered with: the kernel checks the buffer only
\* after entry, so every size_t value can arrive, (size_t)-1 included.  That
\* count is followed through trace_vfs_write_correlated; the other VFS probes
\* compute aligned_size by the same expression.
VfsCounts == Counts \cup {SizeWord - 1}
BioSizes(p) == IF p = "minio_tracer" THEN {4096, 16384} ELSE {4096}
Residuals == {0}

VARIABLES
    prog,              \* which tracer runs
    comms,             \* task -> what bpf_get_current_comm() returns for it
    exited,            \* the tasks that have exited
    env,               \* the parsed command line (static struct env)
    config,            \* minio_config_map[0]
    minio_pids,        \* the minio_pids hash map
    now,               \* bpf_ktime_get_ns()
    request_tracking,  \* hash map pid_tgid -> request context
    io_start_times,    \* hash map u64 -> timestamp
    request_branches,  \* hash map of minio_tracer.bpf.c (its keys)
    ring,              \* the events ring buffer, oldest first
    bio_log,           \* per bio handle: submit and completion events emitted
    stats,             \* struct layer_stats stats[6]
    minio_stats,       \* struct minio_stats
    requests,          \* requests[0 .. request_count-1]
    exiting,           \* the flag the signal handler sets
    output,            \* what was written to output_fp
    pc,                \* where main() is
    err,               \* main()'s err
    status             \* the exit status, once main() has returned

setup == <<prog, comms, exited, env, config, minio_pids>>
consumer == <<stats, minio_stats, requests, exiting, output, pc, err, status>>
vars == <<prog, comms, exited, env, config, minio_pids, now, request_tracking, io_start_times,
          request_branches, ring, bio_log, stats, minio_stats, requests, exiting,
          output, pc, err, status>>

\* ------------------------------------------------------------ helpers
\* The clock is bpf_ktime_get_ns(): every probe firing that reads it finds it
\* one tick later, and between two firings a span of idle time may pass.  A
\* run has at most MaxTime firings that read the clock, or one firing, the
\* idle span and one more firing.
IdleSpan == W32 - 1
CanFire == now < MaxTime \/ now = 1 + IdleSpan

TaskComm(t) == comms[t]

\* bpf_map_update_elem(map, key, value, BPF_ANY) on a BPF_MAP_TYPE_HASH of
\* `cap` entries: a new key is refused (-E2BIG) once the map is full.  No
\* probe looks at the return value.
MapUpdate(m, k, v, cap) ==
    IF k \in DOMAIN m \/ Cardinality(DOMAIN m) < cap THEN (k :> v) @@ m ELSE m

MapDelete(m, k) == [x \in DOMAIN m \ {k} |-> m[x]]

\* bpf_ringbuf_reserve(): a slot, or NULL when the ring has no room
RingHasRoom == Len(ring) < RingCap

Bool2Int(b) == IF b THEN 1 ELSE 0

\* init_event(): memset(event, 0, sizeof *event)
init_event ==
    [timestamp |-> 0, pid |-> 0, tid |-> 0, layer |-> 0, event_type |-> 0,
     system_type |-> 0, size |-> 0, aligned_size |-> 0, latency_ns |-> 0,
     request_id |-> 0, parent_request_id |-> 0, branch_id |-> 0, branch_count |-> 0,
     comm |-> <<>>, filename |-> <<>>, replication_count |-> 0, block_count |-> 0,
     is_metadata |-> 0, is_journal |-> 0, cache_hit |-> 0, is_erasure |-> 0,
     is_xl_meta |-> 0, is_minio |-> 0]

\* A faulty variant of generate_request_id: the shift keeps the upper half of
\* pid_tgid, as if the word were wider than 64 bits.
generate_request_id_wide(pid_tgid, ts) == (pid_tgid * W32) + (ts % W32)

\* (pid_tgid << 32) | (ts & 0xFFFFFFFF) in u64 arithmetic: the shift drops the
\* upper half of pid_tgid; the low half of the shifted value is zero, so the
\* OR is an addition.
generate_request_id(pid_tgid, ts) == ((pid_tgid * W32) % U64) + (ts % W32)

\* (count + 4095) & ~4095ULL, the addition in u64
AlignUp(count) == (((count + (PAGE_SIZE - 1)) % SizeWord) \div PAGE_SIZE) * PAGE_SIZE

\* comm[i..i+len-1] = pat, as the unrolled character comparisons test it
MatchAt(s, i, pat) == \A k \in 0..(Len(pat) - 1) : CharAt(s, i + k) = pat[k + 1]

\* A faulty variant of is_minio_process: by name, "minio" is looked for at the
\* start of comm only.
is_minio_process_at_start(comm, pid) ==
    IF config.trace_mode = MINIO_TRACE_OFF THEN FALSE
    ELSE IF config.trace_mode = MINIO_TRACE_ALL THEN TRUE
    ELSE IF config.trace_mode = MINIO_TRACE_PID THEN pid \in minio_pids
    ELSE IF config.trace_mode = MINIO_TRACE_NAME THEN MatchAt(comm, 0, COMM_MINIO)
    ELSE FALSE

\* is_minio_process of multilayer_io_tracer.bpf.c.  The configuration array
\* has its one slot always, so the lookup cannot fail.
is_minio_process(comm, pid) ==
    IF config.trace_mode = MINIO_TRACE_OFF THEN FALSE
    ELSE IF config.trace_mode = MINIO_TRACE_ALL THEN TRUE
    ELSE IF config.trace_mode = MINIO_TRACE_PID THEN pid \in minio_pids
    ELSE IF config.trace_mode = MINIO_TRACE_NAME
         THEN \E i \in 0..10 : i + 4 < MAX_COMM_LEN /\ MatchAt(comm, i, COMM_MINIO)
    ELSE FALSE

\* the first pattern, in the order of the source, that matches at offset i
SystemAt(comm, i) ==
    IF MatchAt(comm, i, COMM_MINIO) THEN SYSTEM_TYPE_MINIO
    ELSE IF MatchAt(comm, i, <<"c", "e", "p", "h">>) THEN SYSTEM_TYPE_CEPH
    ELSE IF MatchAt(comm, i, <<"e", "t", "c", "d">>) THEN SYSTEM_TYPE_ETCD
    ELSE IF MatchAt(comm, i, <<"p", "o", "s", "t">>) THEN SYSTEM_TYPE_POSTGRES
    ELSE IF MatchAt(comm, i, <<"g", "l", "u", "s">>) THEN SYSTEM_TYPE_GLUSTER
    ELSE SYSTEM_TYPE_UNKNOWN

detect_system_type(comm) ==
    LET hits == {i \in 0..11 : i + 4 < MAX_COMM_LEN /\ SystemAt(comm, i) # SYSTEM_TYPE_UNKNOWN}
    IN IF hits # {}
       THEN SystemAt(comm, CHOOSE i \in hits : \A j \in hits : i <= j)
       ELSE IF CharAt(comm, 0) # NUL /\ CharAt(comm, 0) # " "
            THEN SYSTEM_TYPE_APPLICATION
            ELSE SYSTEM_TYPE_UNKNOWN

\* The filter every multilayer probe but openat, splice and bio_endio opens with:
\* "config && config->trace_mode != MINIO_TRACE_OFF && !is_minio_process(..)"
\* means skip.  With trace_mode off nothing is skipped.
MlSkips(t) ==
    config.trace_mode # MINIO_TRACE_OFF /\ ~is_minio_process(TaskComm(t), PidOf(PidTgid(t)))

\* the request context of the current task, as the VFS and bio probes copy it
CtxFields(pid_tgid) ==
    IF pid_tgid \in DOMAIN request_tracking
    THEN [request_id |-> request_tracking[pid_tgid].app_request_id,
          system_type |-> request_tracking[pid_tgid].system_type,
          is_minio |-> request_tracking[pid_tgid].is_minio]
    ELSE [request_id |-> 0, system_type |-> 0, is_minio |-> 0]

\* ------------------------------------- multilayer_io_tracer.bpf.c probes
\* sys_enter_write / sys_enter_read share one body; they differ in the event type
MlAppEnter(t, count, minio_type, app_type) ==
    LET pid_tgid == PidTgid(t)
        comm == TaskComm(t)
        trace_this == is_minio_process(comm, PidOf(pid_tgid))
        ts == now + 1
        req_ctx == [app_request_id |-> generate_request_id(pid_tgid, ts),
                    original_size |-> count, timestamp |-> ts,
                    system_type |-> detect_system_type(comm),
                    is_minio |-> Bool2Int(trace_this), erasure_blocks |-> 0]
        event == [init_event EXCEPT
                    !.timestamp = req_ctx.timestamp, !.pid = PidOf(pid_tgid),
                    !.tid = TidOf(pid_tgid), !.layer = LAYER_APPLICATION,
                    !.event_type = IF trace_this THEN minio_type ELSE app_type,
                    !.system_type = req_ctx.system_type, !.size = req_ctx.original_size,
                    !.request_id = req_ctx.app_request_id,
                    !.aligned_size = req_ctx.original_size,
                    !.is_minio = Bool2Int(trace_this), !.comm = comm]
    IN /\ prog = "multilayer"
       /\ CanFire
       /\ IF MlSkips(t)
          THEN UNCHANGED vars
          ELSE /\ now' = ts
               /\ request_tracking' = MapUpdate(request_tracking, pid_tgid, req_ctx, MAX_ENTRIES)
               /\ io_start_times' = MapUpdate(io_start_times, pid_tgid, req_ctx.timestamp, MAX_ENTRIES)
               /\ ring' = IF RingHasRoom THEN Append(ring, event) ELSE ring
               /\ UNCHANGED <<setup, consumer, request_branches, bio_log>>

trace_app_write_enter(t, count) ==
    MlAppEnter(t, count, EVENT_MINIO_OBJECT_PUT, EVENT_APP_WRITE)

trace_app_read_enter(t, count) ==
    MlAppEnter(t, count, EVENT_MINIO_OBJECT_GET, EVENT_APP_READ)

\* the scan of the first 64 characters of the path: the first offset at which
\* "xl.meta" or "part." starts decides, "xl.meta" being tested first
FirstMatch(path, pat) ==
    LET hits == {i \in 0..63 : MatchAt(path, i, pat)}
    IN IF hits = {} THEN 64 ELSE CHOOSE i \in hits : \A j \in hits : i <= j

trace_minio_openat(t, path) ==
    LET pid_tgid == PidTgid(t)
        comm == TaskComm(t)
        is_xl_meta == FirstMatch(path, PATH_XL_META) < FirstMatch(path, <<"p", "a", "r", "t", ".">>)
        is_part_file == FirstMatch(path, <<"p", "a", "r", "t", ".">>) < FirstMatch(path, PATH_XL_META)
        event == [init_event EXCEPT
                    !.timestamp = now + 1, !.pid = PidOf(pid_tgid), !.tid = TidOf(pid_tgid),
                    !.layer = LAYER_STORAGE_SERVICE,
                    !.event_type = IF is_xl_meta THEN EVENT_MINIO_XL_META
                                   ELSE EVENT_MINIO_ERASURE_WRITE,
                    !.system_type = SYSTEM_TYPE_MINIO, !.is_minio = 1,
                    !.is_xl_meta = Bool2Int(is_xl_meta),
                    !.is_metadata = Bool2Int(is_xl_meta), !.comm = comm,
                    !.filename = path]
    IN /\ prog = "multilayer"
       /\ CanFire
       /\ IF is_minio_process(comm, PidOf(pid_tgid)) /\ (is_xl_meta \/ is_part_file) /\ RingHasRoom
          THEN /\ now' = now + 1
               /\ ring' = Append(ring, event)
               /\ UNCHANGED <<setup, consumer, request_tracking, io_start_times,
                              request_branches, bio_log>>
          ELSE UNCHANGED vars

MlVfs(t, count, event_type) ==
    LET pid_tgid == PidTgid(t)
        ctx == CtxFields(pid_tgid)
        event == [init_event EXCEPT
                    !.timestamp = now + 1, !.pid = PidOf(pid_tgid), !.tid = TidOf(pid_tgid),
                    !.layer = LAYER_OPERATING_SYSTEM, !.event_type = event_type,
                    !.size = count, !.request_id = ctx.request_id,
                    !.system_type = ctx.system_type, !.is_minio = ctx.is_minio,
                    !.aligned_size = AlignUp(count), !.comm = TaskComm(t)]
    IN /\ prog = "multilayer"
       /\ CanFire
       /\ IF ~MlSkips(t) /\ RingHasRoom
          THEN /\ now' = now + 1
               /\ ring' = Append(ring, event)
               /\ UNCHANGED <<setup, consumer, request_tracking, io_start_times,
                              request_branches, bio_log>>
          ELSE UNCHANGED vars

trace_vfs_read(t, count) == MlVfs(t, count, EVENT_OS_VFS_READ)

trace_vfs_write(t, count) == MlVfs(t, count, EVENT_OS_VFS_WRITE)

trace_fs_sync(t) ==
    LET pid_tgid == PidTgid(t)
        comm == TaskComm(t)
        event == [init_event EXCEPT
                    !.timestamp = now + 1, !.pid = PidOf(pid_tgid), !.tid = TidOf(pid_tgid),
                    !.layer = LAYER_FILESYSTEM, !.event_type = EVENT_FS_SYNC,
                    !.is_metadata = 1,
                    !.is_minio = Bool2Int(is_minio_process(comm, PidOf(pid_tgid))),
                    !.comm = comm]
    IN /\ prog = "multilayer"
       /\ CanFire
       /\ IF ~MlSkips(t) /\ RingHasRoom
          THEN /\ now' = now + 1
               /\ ring' = Append(ring, event)
               /\ UNCHANGED <<setup, consumer, request_tracking, io_start_times,
                              request_branches, bio_log>>
          ELSE UNCHANGED vars

trace_minio_splice(t, len) ==
    LET pid_tgid == PidTgid(t)
        comm == TaskComm(t)
        event == [init_event EXCEPT
                    !.timestamp = now + 1, !.pid = PidOf(pid_tgid), !.tid = TidOf(pid_tgid),
                    !.layer = LAYER_STORAGE_SERVICE, !.event_type = EVENT_MINIO_MULTIPART,
                    !.system_type = SYSTEM_TYPE_MINIO, !.size = len, !.is_minio = 1,
                    !.comm = comm]
    IN /\ prog = "multilayer"
       /\ CanFire
       /\ IF is_minio_process(comm, PidOf(pid_tgid)) /\ RingHasRoom
          THEN /\ now' = now + 1
               /\ ring' = Append(ring, event)
               /\ UNCHANGED <<setup, consumer, request_tracking, io_start_times,
                              request_branches, bio_log>>
          ELSE UNCHANGED vars

\* bio_log counts, per bio handle, the submit and completion events put in the ring
LogSubmit(bio) == [bio_log EXCEPT !.submits[bio] = @ + 1]
LogComplete(bio) == [bio_log EXCEPT !.completes[bio] = @ + 1]

\* The timing record is installed after the event was submitted; a failed
\* reservation returns before it.
trace_bio_submit(t, bio, bi_size) ==
    LET pid_tgid == PidTgid(t)
        ctx == CtxFields(pid_tgid)
        event == [init_event EXCEPT
                    !.timestamp = now + 1, !.pid = PidOf(pid_tgid), !.tid = TidOf(pid_tgid),
                    !.layer = LAYER_DEVICE, !.event_type = EVENT_DEV_BIO_SUBMIT,
                    !.size = bi_size, !.aligned_size = bi_size,
                    !.request_id = ctx.request_id, !.system_type = ctx.system_type,
                    !.is_minio = ctx.is_minio, !.comm = TaskComm(t)]
    IN /\ prog = "multilayer"
       /\ CanFire
       /\ IF bio # 0 /\ ~MlSkips(t) /\ RingHasRoom
          THEN /\ now' = now + 1
               /\ ring' = Append(ring, event)
               /\ bio_log' = LogSubmit(bio)
               /\ io_start_times' = MapUpdate(io_start_times, bio, now + 1, MAX_ENTRIES)
               /\ UNCHANGED <<setup, consumer, request_tracking, request_branches>>
          ELSE UNCHANGED vars

\* A faulty variant of bio_endio: the timing record is left in the table.
BioCompleteKeepsRecord(bio, bi_size, journal) ==
    /\ CanFire
    /\ IF bio # 0 /\ bio \in DOMAIN io_start_times
       THEN /\ now' = now + 1
            /\ IF RingHasRoom
               THEN /\ ring' = Append(ring, [init_event EXCEPT
                                               !.timestamp = now + 1, !.layer = LAYER_DEVICE,
                                               !.event_type = EVENT_DEV_BIO_COMPLETE,
                                               !.latency_ns = (now + 1) - io_start_times[bio],
                                               !.size = bi_size, !.aligned_size = bi_size,
                                               !.is_journal = journal])
                    /\ bio_log' = LogComplete(bio)
               ELSE UNCHANGED <<ring, bio_log>>
            /\ UNCHANGED <<setup, consumer, request_tracking, io_start_times, request_branches>>
       ELSE UNCHANGED vars

\* A faulty variant of bio_endio: a failed reservation returns at once and
\* leaves the timing record in the table.
BioCompleteLeaksOnDrop(bio, bi_size, journal) ==
    /\ CanFire
    /\ IF bio # 0 /\ bio \in DOMAIN io_start_times
       THEN /\ now' = now + 1
            /\ IF RingHasRoom
               THEN /\ ring' = Append(ring, [init_event EXCEPT
                                               !.timestamp = now + 1, !.layer = LAYER_DEVICE,
                                               !.event_type = EVENT_DEV_BIO_COMPLETE,
                                               !.latency_ns = (now + 1) - io_start_times[bio],
                                               !.size = bi_size, !.aligned_size = bi_size,
                                               !.is_journal = journal])
                    /\ bio_log' = LogComplete(bio)
                    /\ io_start_times' = MapDelete(io_start_times, bio)
               ELSE UNCHANGED <<ring, bio_log, io_start_times>>
            /\ UNCHANGED <<setup, consumer, request_tracking, request_branches>>
       ELSE UNCHANGED vars

\* bio_endio: the record is deleted whether or not the reservation succeeds
BioComplete(bio, bi_size, journal) ==
    LET latency == (now + 1) - io_start_times[bio]
        event == [init_event EXCEPT
                    !.timestamp = now + 1, !.layer = LAYER_DEVICE,
                    !.event_type = EVENT_DEV_BIO_COMPLETE, !.latency_ns = latency,
                    !.size = bi_size, !.aligned_size = bi_size, !.is_journal = journal]
    IN /\ CanFire
       /\ IF bio # 0 /\ bio \in DOMAIN io_start_times
          THEN /\ now' = now + 1
               /\ IF RingHasRoom
                  THEN ring' = Append(ring, event) /\ bio_log' = LogComplete(bio)
                  ELSE UNCHANGED <<ring, bio_log>>
               /\ io_start_times' = MapDelete(io_start_times, bio)
               /\ UNCHANGED <<setup, consumer, request_tracking, request_branches>>
          ELSE UNCHANGED vars

trace_bio_complete(bio, bi_size) ==
    prog = "multilayer" /\ BioComplete(bio, bi_size, 0)

\* ---------------------------------------------- minio_tracer.bpf.c probes
\* is_minio_process of minio_tracer.bpf.c: not "minio_tracer...", and exactly
\* "minio" or "minio " followed by more
mt_is_minio_process(comm) ==
    IF MatchAt(comm, 0, COMM_MINIO_TRACER) THEN FALSE
    ELSE IF MatchAt(comm, 0, COMM_MINIO)
         THEN CharAt(comm, 5) = NUL \/ CharAt(comm, 5) = " "
    ELSE FALSE

RECURSIVE Xor(_, _)
Xor(a, b) ==
    IF a = 0 THEN b
    ELSE IF b = 0 THEN a
    ELSE (((a % 2) + (b % 2)) % 2) + 2 * Xor(a \div 2, b \div 2)

\* request_branches holds MAX_ENTRIES * 4 entries; only its keys matter
BranchInsert(key) ==
    IF key \in request_branches \/ Cardinality(request_branches) < MAX_ENTRIES * 4
    THEN request_branches \cup {key} ELSE request_branches

\* sys_enter_write / sys_enter_read of minio_tracer.bpf.c.  An existing context
\* with a parent is continued as a branch (no clock is read); otherwise a new
\* request id is generated.
MtAppEnter(t, count, event_type, op_type) ==
    LET pid_tgid == PidTgid(t)
        comm == TaskComm(t)
        branched == pid_tgid \in DOMAIN request_tracking
                    /\ request_tracking[pid_tgid].parent_request_id # 0
        ts == now + 1
        req_ctx == IF branched
                   THEN [request_tracking[pid_tgid] EXCEPT !.branch_count = (@ + 1) % W32]
                   ELSE [app_request_id |-> generate_request_id(pid_tgid, ts),
                         parent_request_id |-> 0, original_size |-> count,
                         timestamp |-> ts, system_type |-> 1, branch_count |-> 0,
                         is_minio_op |-> 1, op_type |-> op_type]
        event == [init_event EXCEPT
                    !.timestamp = req_ctx.timestamp, !.pid = PidOf(pid_tgid),
                    !.tid = TidOf(pid_tgid), !.layer = LAYER_APPLICATION,
                    !.event_type = event_type, !.system_type = 1, !.size = count,
                    !.request_id = req_ctx.app_request_id,
                    !.parent_request_id = req_ctx.parent_request_id,
                    !.branch_id = req_ctx.branch_count, !.aligned_size = count,
                    !.comm = comm]
    IN /\ prog = "minio_tracer"
       /\ CanFire
       /\ IF ~mt_is_minio_process(comm)
          THEN UNCHANGED vars
          ELSE /\ now' = IF branched THEN now ELSE ts
               /\ request_tracking' = MapUpdate(request_tracking, pid_tgid, req_ctx, MAX_ENTRIES)
               /\ io_start_times' = MapUpdate(io_start_times, pid_tgid, req_ctx.timestamp, MAX_ENTRIES)
               /\ ring' = IF RingHasRoom THEN Append(ring, event) ELSE ring
               /\ UNCHANGED <<setup, consumer, request_branches, bio_log>>

trace_minio_write(t, count) == MtAppEnter(t, count, MT_EVENT_MINIO_OBJECT_PUT, 1)

trace_minio_read(t, count) == MtAppEnter(t, count, MT_EVENT_MINIO_OBJECT_GET, 0)

\* kprobe/vfs_open: only for a task that has a request context
trace_minio_metadata(t) ==
    LET pid_tgid == PidTgid(t)
        comm == TaskComm(t)
        event == [init_event EXCEPT
                    !.timestamp = now + 1, !.pid = PidOf(pid_tgid), !.tid = TidOf(pid_tgid),
                    !.layer = LAYER_STORAGE_SERVICE, !.event_type = MT_EVENT_MINIO_XL_META,
                    !.system_type = 1,
                    !.request_id = request_tracking[pid_tgid].app_request_id,
                    !.parent_request_id = request_tracking[pid_tgid].parent_request_id,
                    !.is_metadata = 1, !.comm = comm]
    IN /\ prog = "minio_tracer"
       /\ CanFire
       /\ IF mt_is_minio_process(comm) /\ pid_tgid \in DOMAIN request_tracking /\ RingHasRoom
          THEN /\ now' = now + 1
               /\ ring' = Append(ring, event)
               /\ UNCHANGED <<setup, consumer, request_tracking, io_start_times,
                              request_branches, bio_log>>
          ELSE UNCHANGED vars

\* vfs_read / vfs_write with correlation.  req_ctx points into the map, so
\* "req_ctx->branch_count++" changes the stored context, also when the
\* reservation fails afterwards.  vfs_read takes a branch only when its key
\* (pid_tgid ^ now) is not in request_branches yet; vfs_write always does.
MtVfs(t, count, event_type, always_branch) ==
    LET pid_tgid == PidTgid(t)
        comm == TaskComm(t)
        ts == now + 1
        branch_key == Xor(pid_tgid, ts)
        takes == always_branch \/ branch_key \notin request_branches
        old == request_tracking[pid_tgid]
        new_count == IF takes THEN (old.branch_count + 1) % W32 ELSE old.branch_count
        event == [init_event EXCEPT
                    !.timestamp = ts, !.pid = PidOf(pid_tgid), !.tid = TidOf(pid_tgid),
                    !.layer = LAYER_OPERATING_SYSTEM, !.event_type = event_type,
                    !.size = count, !.request_id = old.app_request_id,
                    !.parent_request_id = old.parent_request_id,
                    !.branch_id = IF takes THEN old.branch_count ELSE 0,
                    !.branch_count = new_count,
                    !.aligned_size = AlignUp(count), !.comm = comm]
    IN /\ prog = "minio_tracer"
       /\ CanFire
       /\ IF mt_is_minio_process(comm) /\ pid_tgid \in DOMAIN request_tracking
          THEN /\ now' = ts
               /\ request_tracking' = [request_tracking EXCEPT ![pid_tgid].branch_count = new_count]
               /\ request_branches' = IF takes THEN BranchInsert(branch_key) ELSE request_branches
               /\ ring' = IF RingHasRoom THEN Append(ring, event) ELSE ring
               /\ UNCHANGED <<setup, consumer, io_start_times, bio_log>>
          ELSE UNCHANGED vars

trace_vfs_read_correlated(t, count) == MtVfs(t, count, EVENT_OS_VFS_READ, FALSE)

trace_vfs_write_correlated(t, count) == MtVfs(t, count, EVENT_OS_VFS_WRITE, TRUE)

\* the context of the current task as the fsync and bio probes copy it
MtCtxFields(pid_tgid) ==
    IF pid_tgid \in DOMAIN request_tracking
    THEN [request_id |-> request_tracking[pid_tgid].app_request_id,
          parent_request_id |-> request_tracking[pid_tgid].parent_request_id,
          branch_id |-> request_tracking[pid_tgid].branch_count]
    ELSE [request_id |-> 0, parent_request_id |-> 0, branch_id |-> 0]

trace_fs_sync_correlated(t) ==
    LET pid_tgid == PidTgid(t)
        comm == TaskComm(t)
        ctx == MtCtxFields(pid_tgid)
        event == [init_event EXCEPT
                    !.timestamp = now + 1, !.pid = PidOf(pid_tgid), !.tid = TidOf(pid_tgid),
                    !.layer = LAYER_FILESYSTEM, !.event_type = EVENT_FS_SYNC,
                    !.is_metadata = 1, !.request_id = ctx.request_id,
                    !.parent_request_id = ctx.parent_request_id,
                    !.branch_id = ctx.branch_id, !.comm = comm]
    IN /\ prog = "minio_tracer"
       /\ CanFire
       /\ IF mt_is_minio_process(comm) /\ RingHasRoom
          THEN /\ now' = now + 1
               /\ ring' = Append(ring, event)
               /\ UNCHANGED <<setup, consumer, request_tracking, io_start_times,
                              request_branches, bio_log>>
          ELSE UNCHANGED vars

trace_bio_submit_correlated(t, bio, bi_size) ==
    LET pid_tgid == PidTgid(t)
        comm == TaskComm(t)
        ctx == MtCtxFields(pid_tgid)
        event == [init_event EXCEPT
                    !.timestamp = now + 1, !.pid = PidOf(pid_tgid), !.tid = TidOf(pid_tgid),
                    !.layer = LAYER_DEVICE, !.event_type = EVENT_DEV_BIO_SUBMIT,
                    !.size = bi_size, !.aligned_size = bi_size,
                    !.is_journal = Bool2Int(bi_size <= JOURNAL_MAX),
                    !.request_id = ctx.request_id,
                    !.parent_request_id = ctx.parent_request_id,
                    !.branch_id = ctx.branch_id, !.comm = comm]
    IN /\ prog = "minio_tracer"
       /\ CanFire
       /\ IF mt_is_minio_process(comm) /\ bio # 0 /\ RingHasRoom
          THEN /\ now' = now + 1
               /\ ring' = Append(ring, event)
               /\ bio_log' = LogSubmit(bio)
               /\ io_start_times' = MapUpdate(io_start_times, bio, now + 1, MAX_ENTRIES)
               /\ UNCHANGED <<setup, consumer, request_tracking, request_branches>>
          ELSE UNCHANGED vars

trace_bio_complete_correlated(bio, bi_size) ==
    prog = "minio_tracer" /\ BioComplete(bio, bi_size, Bool2Int(bi_size <= JOURNAL_MAX))

\* ------------------------------- multilayer_io_tracer.c: the consumer
\* a double that is a quotient of two counters is kept as <<numerator, denominator>>
ZeroLayerStats ==
    [total_events |-> 0, total_bytes |-> 0, aligned_bytes |-> 0, metadata_ops |-> 0,
     journal_ops |-> 0, cache_hits |-> 0, cache_misses |-> 0, total_latency |-> 0,
     amplification_factor |-> <<0, 1>>, minio_events |-> 0, minio_bytes |-> 0,
     xl_meta_ops |-> 0, erasure_writes |-> 0, multipart_ops |-> 0]

ZeroMinioStats ==
    [total_objects_written |-> 0, total_objects_read |-> 0, xl_meta_operations |-> 0,
     erasure_blocks_written |-> 0, multipart_uploads |-> 0, metadata_bytes |-> 0,
     data_bytes |-> 0]

ZeroRequestStats ==
    [request_id |-> 0, app_size |-> 0, storage_service_size |-> 0, os_size |-> 0,
     fs_size |-> 0, device_size |-> 0, replication_factor |-> 0, journal_blocks |-> 0,
     is_minio |-> 0, object_name |-> <<>>]

\* e->aligned_size ? e->aligned_size : e->size
AlignedOrSize(e) == IF e.aligned_size # 0 THEN e.aligned_size ELSE e.size

\* A faulty variant of the first half of update_stats: the latency of the
\* event replaces the total instead of being added to it.
UpdateLayerStatsLastLatency(s, e) ==
    [s EXCEPT
       !.total_events = @ + 1,
       !.total_bytes = @ + e.size,
       !.aligned_bytes = @ + AlignedOrSize(e),
       !.metadata_ops = @ + Bool2Int(e.is_metadata # 0),
       !.journal_ops = @ + Bool2Int(e.is_journal # 0),
       !.cache_hits = @ + Bool2Int(e.cache_hit # 0),
       !.cache_misses = @ + Bool2Int(e.event_type = 306),
       !.total_latency = e.latency_ns,
       !.minio_events = @ + Bool2Int(e.is_minio # 0),
       !.minio_bytes = @ + (IF e.is_minio # 0 THEN e.size ELSE 0),
       !.xl_meta_ops = @ + Bool2Int(e.is_minio # 0 /\ e.is_xl_meta # 0),
       !.erasure_writes = @ + Bool2Int(e.is_minio # 0 /\ e.event_type = EVENT_MINIO_ERASURE_WRITE),
       !.multipart_ops = @ + Bool2Int(e.is_minio # 0 /\ e.event_type = EVENT_MINIO_MULTIPART)]

\* update_stats, first half: the per-layer counters of stats[e->layer]
UpdateLayerStats(s, e) ==
    LET m == e.is_minio # 0
    IN [s EXCEPT
          !.total_events = @ + 1,
          !.total_bytes = @ + e.size,
          !.aligned_bytes = @ + AlignedOrSize(e),
          !.metadata_ops = @ + Bool2Int(e.is_metadata # 0),
          !.journal_ops = @ + Bool2Int(e.is_journal # 0),
          !.cache_hits = @ + Bool2Int(e.cache_hit # 0),
          !.cache_misses = @ + Bool2Int(e.event_type = 306),
          !.total_latency = @ + e.latency_ns,
          !.minio_events = @ + Bool2Int(m),
          !.minio_bytes = @ + (IF m THEN e.size ELSE 0),
          !.xl_meta_ops = @ + Bool2Int(m /\ e.is_xl_meta # 0),
          !.erasure_writes = @ + Bool2Int(m /\ e.event_type = EVENT_MINIO_ERASURE_WRITE),
          !.multipart_ops = @ + Bool2Int(m /\ e.event_type = EVENT_MINIO_MULTIPART)]

UpdateMinioStats(ms, e) ==
    IF e.is_minio = 0 THEN ms
    ELSE [ms EXCEPT
            !.xl_meta_operations = @ + Bool2Int(e.is_xl_meta # 0),
            !.metadata_bytes = @ + (IF e.is_xl_meta # 0 THEN e.size ELSE 0),
            !.erasure_blocks_written = @ + Bool2Int(e.event_type = EVENT_MINIO_ERASURE_WRITE),
            !.multipart_uploads = @ + Bool2Int(e.event_type = EVENT_MINIO_MULTIPART),
            !.total_objects_written = @ + Bool2Int(e.event_type = EVENT_MINIO_OBJECT_PUT),
            !.data_bytes = @ + (IF e.event_type = EVENT_MINIO_OBJECT_PUT THEN e.size ELSE 0),
            !.total_objects_read = @ + Bool2Int(e.event_type = EVENT_MINIO_OBJECT_GET)]

\* the index (from 1) of the first record with this request id, 0 when none
FindRequest(reqs, request_id) ==
    LET hits == {i \in 1..Len(reqs) : reqs[i].request_id = request_id}
    IN IF hits = {} THEN 0 ELSE CHOOSE i \in hits : \A j \in hits : i <= j

\* update_stats, second half: the request matching e->request_id takes the
\* event's bytes; an unseen id makes a record only for an application event
\* and only while the table has room
UpdateRequests(reqs, correlation_mode, e) ==
    LET i == FindRequest(reqs, e.request_id)
    IN IF ~(correlation_mode /\ e.request_id # 0) THEN reqs
       ELSE IF i # 0
       THEN IF e.layer = LAYER_APPLICATION
            THEN [reqs EXCEPT ![i].app_size = @ + e.size, ![i].is_minio = e.is_minio]
            ELSE IF e.layer = LAYER_STORAGE_SERVICE
            THEN [reqs EXCEPT ![i].storage_service_size = @ + e.size,
                              ![i].replication_factor =
                                  IF e.replication_count > 0 THEN e.replication_count ELSE @]
            ELSE IF e.layer = LAYER_OPERATING_SYSTEM
            THEN [reqs EXCEPT ![i].os_size = @ + AlignedOrSize(e)]
            ELSE IF e.layer = LAYER_FILESYSTEM
            THEN [reqs EXCEPT ![i].fs_size = @ + e.size,
                              ![i].journal_blocks =
                                  IF e.is_journal # 0 THEN @ + e.block_count ELSE @]
            ELSE IF e.layer = LAYER_DEVICE
            THEN [reqs EXCEPT ![i].device_size = @ + e.size]
            ELSE reqs
       ELSE IF Len(reqs) < MAX_REQUESTS /\ e.layer = LAYER_APPLICATION
       THEN Append(reqs, [ZeroRequestStats EXCEPT
                            !.request_id = e.request_id, !.app_size = e.size,
                            !.is_minio = e.is_minio, !.object_name = e.filename])
       ELSE reqs

\* A faulty variant of update_stats: the flow table is looked at first, and an
\* event that correlation is on for but the table has no record for is left
\* out of the layer statistics too.
update_stats_flow_first(st, ms, reqs, correlation_mode, e) ==
    IF e.layer > 5
       \/ (correlation_mode /\ e.request_id # 0
           /\ UpdateRequests(reqs, correlation_mode, e) = reqs
           /\ FindRequest(reqs, e.request_id) = 0)
    THEN [stats |-> st, minio_stats |-> ms, requests |-> reqs]
    ELSE [stats |-> [st EXCEPT ![e.layer] = UpdateLayerStats(@, e)],
          minio_stats |-> UpdateMinioStats(ms, e),
          requests |-> UpdateRequests(reqs, correlation_mode, e)]

\* update_stats on the consumer state (st, ms, reqs) with env.correlation_mode
\* as given: the state afterwards
update_stats(st, ms, reqs, correlation_mode, e) ==
    IF e.layer > 5
    THEN [stats |-> st, minio_stats |-> ms, requests |-> reqs]
    ELSE [stats |-> [st EXCEPT ![e.layer] = UpdateLayerStats(@, e)],
          minio_stats |-> UpdateMinioStats(ms, e),
          requests |-> UpdateRequests(reqs, correlation_mode, e)]

\* handle_event of multilayer_io_tracer.c: update_stats, then one line of
\* stream output unless -q was given
handle_event(e) ==
    LET after == update_stats(stats, minio_stats, requests, env.correlation_mode, e)
    IN /\ stats' = after.stats
       /\ minio_stats' = after.minio_stats
       /\ requests' = after.requests
       /\ output' = IF env.realtime
                    THEN [output EXCEPT !.lines = @ + 1, !.last = "line"] ELSE output

\* print_amplification_summary stores the factors it prints
StoreAmplification(st) ==
    IF st[LAYER_APPLICATION].total_bytes > 0
    THEN [l \in DOMAIN st |->
            IF l \in 2..5
            THEN [st[l] EXCEPT !.amplification_factor =
                                  <<st[l].aligned_bytes, st[LAYER_APPLICATION].total_bytes>>]
            ELSE st[l]]
    ELSE st

\* a quotient printed with "%.2f": the hundredths, rounded
Hundredths(q) == IF q[2] = 0 THEN 0 ELSE (200 * q[1] + q[2]) \div (2 * q[2])

\* rows of the per-request table ("Top 10") and of minio_tracer's flow table
TOP_REQUESTS == 10
TOP_FLOWS == 50

FirstRows(rows, n) == SubSeq(rows, 1, IF Len(rows) > n THEN n ELSE Len(rows))

\* The headline of print_amplification_summary ("TOTAL AMPLIFICATION"): the
\* bytes of the last layer that saw any (device, else filesystem, else the
\* aligned bytes of the OS layer) over the application bytes; no headline
\* without application bytes or without any such bytes.
Headline(st) ==
    LET app_bytes == st[LAYER_APPLICATION].total_bytes
        final_bytes == IF st[LAYER_DEVICE].total_bytes # 0 THEN st[LAYER_DEVICE].total_bytes
                       ELSE IF st[LAYER_FILESYSTEM].total_bytes # 0
                            THEN st[LAYER_FILESYSTEM].total_bytes
                       ELSE st[LAYER_OPERATING_SYSTEM].aligned_bytes
    IN IF app_bytes > 0 /\ final_bytes > 0
       THEN <<Hundredths(<<final_bytes, app_bytes>>), final_bytes, app_bytes>>
       ELSE <<>>

\* what print_amplification_summary and print_minio_summary write for the
\* consumer state (st, ms, reqs), the factors in st being those already stored
AmplificationText(st, ms, reqs) ==
    LET app_bytes == st[LAYER_APPLICATION].total_bytes
        Row(r) == LET total == IF r.device_size # 0 THEN r.device_size
                               ELSE IF r.fs_size # 0 THEN r.fs_size ELSE r.os_size
                  IN <<r.request_id, r.app_size, r.storage_service_size, r.os_size,
                       r.fs_size, r.device_size, total,
                       IF r.app_size > 0 THEN Hundredths(<<total, r.app_size>>) ELSE 0,
                       r.is_minio # 0>>
    IN [layers |-> [l \in 1..5 |->
                      <<st[l].total_events, st[l].total_bytes, st[l].aligned_bytes,
                        st[l].metadata_ops, st[l].journal_ops, st[l].cache_hits,
                        Hundredths(st[l].amplification_factor),
                        IF st[l].minio_events > 0
                        THEN <<st[l].minio_events, st[l].minio_bytes, st[l].xl_meta_ops>>
                        ELSE <<>> >>],
        breakdown |-> IF app_bytes > 0
                      THEN <<app_bytes,
                             [l \in 2..5 |-> <<st[l].total_bytes, st[l].aligned_bytes,
                                               Hundredths(<<st[l].aligned_bytes, app_bytes>>),
                                               Hundredths(<<st[l].total_bytes, app_bytes>>)>>],
                             st[LAYER_FILESYSTEM].journal_ops * PAGE_SIZE,
                             st[LAYER_FILESYSTEM].metadata_ops,
                             Headline(st)>>
                      ELSE <<>>,
        per_request |-> IF env.correlation_mode /\ Len(reqs) > 0
                        THEN [i \in 1..Len(FirstRows(reqs, TOP_REQUESTS)) |-> Row(reqs[i])]
                        ELSE <<>>,
        minio |-> IF env.minio_only
                  THEN <<ms, [l \in 1..5 |-> <<st[l].minio_events, st[l].minio_bytes,
                                               st[l].xl_meta_ops, st[l].erasure_writes,
                                               st[l].multipart_ops>>]>>
                  ELSE <<>>]

\* A faulty variant of the summary printer: the table is printed from the
\* factors stored before, the new factors are stored afterwards.
SummaryRunPrintsFirst(st, ms, reqs) ==
    [text |-> AmplificationText(st, ms, reqs), stats |-> StoreAmplification(st)]

\* one run of the summary printer of multilayer_io_tracer.c on (st, ms, reqs):
\* what it writes and the statistics it leaves
SummaryRun(st, ms, reqs) ==
    [text |-> AmplificationText(StoreAmplification(st), ms, reqs),
     stats |-> StoreAmplification(st)]

\* ------------------------------------- minio_tracer.c: the consumer
ZeroRequestFlow ==
    [request_id |-> 0, parent_request_id |-> 0, start_time |-> 0, end_time |-> 0,
     total_branches |-> 0, completed_branches |-> 0, app_bytes |-> 0,
     storage_bytes |-> 0, os_bytes |-> 0, fs_bytes |-> 0, device_bytes |-> 0,
     vfs_reads |-> 0, vfs_writes |-> 0, bio_submits |-> 0, metadata_ops |-> 0,
     journal_ops |-> 0, op_type |-> 0, object_name |-> <<>>, erasure_branches |-> 0,
     replication_factor |-> 0]

\* A faulty variant of find_or_create_request: the search is left out, every
\* call makes a record while there is room.
find_or_create_request_unsearched(reqs, request_id) ==
    IF Len(reqs) < MAX_REQUESTS
    THEN <<Append(reqs, [ZeroRequestFlow EXCEPT !.request_id = request_id]), Len(reqs) + 1>>
    ELSE <<reqs, 0>>

\* find_or_create_request: <<the table afterwards, the index of the record>>,
\* index 0 standing for NULL (not found and the table full)
find_or_create_request(reqs, request_id) ==
    LET i == FindRequest(reqs, request_id)
    IN IF i # 0 THEN <<reqs, i>>
       ELSE IF Len(reqs) < MAX_REQUESTS
       THEN <<Append(reqs, [ZeroRequestFlow EXCEPT !.request_id = request_id]), Len(reqs) + 1>>
       ELSE <<reqs, 0>>

\* the switch on e->layer of update_request_flow
LayerMetrics(r, e) ==
    IF e.layer = LAYER_APPLICATION
    THEN [r EXCEPT !.app_bytes = @ + e.size,
                   !.op_type = IF e.event_type = MT_EVENT_MINIO_OBJECT_GET THEN 0
                               ELSE IF e.event_type = MT_EVENT_MINIO_OBJECT_PUT THEN 1 ELSE @,
                   !.object_name = IF e.filename # <<>> /\ @ = <<>> THEN e.filename ELSE @]
    ELSE IF e.layer = LAYER_STORAGE_SERVICE
    THEN [r EXCEPT !.storage_bytes = @ + e.size,
                   !.metadata_ops = @ + Bool2Int(e.is_metadata # 0),
                   !.erasure_branches = @ + Bool2Int(e.is_erasure # 0),
                   !.replication_factor =
                       IF e.replication_count > 0 THEN e.replication_count ELSE @]
    ELSE IF e.layer = LAYER_OPERATING_SYSTEM
    THEN [r EXCEPT !.os_bytes = @ + AlignedOrSize(e),
                   !.vfs_reads = @ + Bool2Int(e.event_type = EVENT_OS_VFS_READ),
                   !.vfs_writes = @ + Bool2Int(e.event_type = EVENT_OS_VFS_WRITE)]
    ELSE IF e.layer = LAYER_FILESYSTEM
    THEN [r EXCEPT !.fs_bytes = @ + e.size,
                   !.journal_ops = @ + Bool2Int(e.is_journal # 0)]
    ELSE IF e.layer = LAYER_DEVICE
    THEN [r EXCEPT !.device_bytes = @ + e.size,
                   !.bio_submits = @ + Bool2Int(e.event_type = EVENT_DEV_BIO_SUBMIT)]
    ELSE r

\* A faulty variant of update_request_flow: start_time is only ever lowered,
\* so that the 0 a new record starts with stays.
update_request_flow_start_from_zero(reqs, e) ==
    LET found == find_or_create_request(reqs, e.request_id)
        i == found[2]
        r == found[1][i]
        r1 == [r EXCEPT
                 !.parent_request_id =
                     IF e.parent_request_id # 0 /\ @ = 0 THEN e.parent_request_id ELSE @,
                 !.start_time = IF e.timestamp < @ THEN e.timestamp ELSE @,
                 !.end_time = IF e.timestamp > @ THEN e.timestamp ELSE @,
                 !.total_branches = IF e.branch_count > @ THEN e.branch_count ELSE @]
    IN IF i = 0 THEN reqs ELSE [found[1] EXCEPT ![i] = LayerMetrics(r1, e)]

update_request_flow(reqs, e) ==
    LET found == find_or_create_request(reqs, e.request_id)
        i == found[2]
        r == found[1][i]
        r1 == [r EXCEPT
                 !.parent_request_id =
                     IF e.parent_request_id # 0 /\ @ = 0 THEN e.parent_request_id ELSE @,
                 !.start_time = IF @ = 0 \/ e.timestamp < @ THEN e.timestamp ELSE @,
                 !.end_time = IF e.timestamp > @ THEN e.timestamp ELSE @,
                 !.total_branches = IF e.branch_count > @ THEN e.branch_count ELSE @]
    IN IF i = 0 THEN reqs ELSE [found[1] EXCEPT ![i] = LayerMetrics(r1, e)]

\* the block of handle_event that counts a completed device I/O
CountCompletion(reqs, e) ==
    LET found == find_or_create_request(reqs, e.request_id)
        i == found[2]
    IN IF e.event_type = EVENT_DEV_BIO_COMPLETE /\ e.layer = LAYER_DEVICE /\ i # 0
       THEN [found[1] EXCEPT ![i].completed_branches = @ + 1]
       ELSE reqs

\* what handle_event of minio_tracer.c does to the flow table
MtFlowsAfter(reqs, e) ==
    CountCompletion(IF env.correlation_mode THEN update_request_flow(reqs, e) ELSE reqs, e)

\* handle_event of minio_tracer.c
mt_handle_event(e) ==
    /\ requests' = MtFlowsAfter(requests, e)
    /\ output' = [output EXCEPT !.lines = @ + 1, !.last = "line"]
    /\ UNCHANGED <<stats, minio_stats>>

\* the sum of field f over the records of a table
RECURSIVE SumOverRows(_, _)
SumOverRows(rows, f) ==
    IF rows = <<>> THEN 0 ELSE Head(rows)[f] + SumOverRows(Tail(rows), f)

\* the bubble sort of print_request_summary, by start_time
RECURSIVE BubblePass(_, _, _)
BubblePass(reqs, j, last) ==
    IF j > last THEN reqs
    ELSE BubblePass(IF reqs[j].start_time > reqs[j + 1].start_time
                    THEN [reqs EXCEPT ![j] = reqs[j + 1], ![j + 1] = reqs[j]]
                    ELSE reqs, j + 1, last)

RECURSIVE BubbleSort(_, _)
BubbleSort(reqs, i) ==
    IF i >= Len(reqs) - 1 THEN reqs
    ELSE BubbleSort(BubblePass(reqs, 1, Len(reqs) - i - 1), i + 1)

\* The headline of print_request_summary: the device bytes of all flows over
\* their application bytes, printed when both are positive.
RequestHeadline(reqs) ==
    LET app == SumOverRows(reqs, "app_bytes")
        dev == SumOverRows(reqs, "device_bytes")
    IN IF app > 0 /\ dev > 0 THEN <<Hundredths(<<dev, app>>)>> ELSE <<>>

\* what print_request_summary writes for the sorted flow table reqs
RequestFlowText(reqs) ==
    LET Row(r) == LET final_bytes == IF r.device_bytes # 0 THEN r.device_bytes
                                     ELSE IF r.fs_bytes # 0 THEN r.fs_bytes ELSE r.os_bytes
                  IN <<r.request_id % W32, r.op_type # 0, r.object_name, r.app_bytes,
                       r.os_bytes, r.device_bytes,
                       IF r.app_bytes > 0 THEN Hundredths(<<final_bytes, r.app_bytes>>) ELSE 0,
                       IF r.total_branches > 1
                       THEN <<r.total_branches, r.completed_branches, r.vfs_reads,
                              r.vfs_writes, r.bio_submits, r.metadata_ops, r.journal_ops>>
                       ELSE <<>>,
                       IF r.parent_request_id # 0 THEN <<r.parent_request_id % W32>> ELSE <<>>,
                       IF r.erasure_branches > 0 THEN <<r.erasure_branches>> ELSE <<>> >>
        Total(f) == SumOverRows(reqs, f)
        app == Total("app_bytes")
        os == Total("os_bytes")
        dev == Total("device_bytes")
        gets == Cardinality({i \in 1..Len(reqs) : reqs[i].op_type = 0})
        branched == Cardinality({i \in 1..Len(reqs) : reqs[i].total_branches > 1})
    IN [count |-> Len(reqs),
        flows |-> [i \in 1..Len(FirstRows(reqs, TOP_FLOWS)) |-> Row(reqs[i])],
        aggregate |-> <<gets, Len(reqs) - gets, branched,
                        Hundredths(<<10 * branched, Len(reqs)>>),
                        app, os, IF app > 0 THEN Hundredths(<<os, app>>) ELSE 0,
                        dev, IF app > 0 THEN Hundredths(<<dev, app>>) ELSE 0,
                        RequestHeadline(reqs)>>]

\* one run of print_request_summary on the flow table reqs: what it writes and
\* the table it leaves.  It returns at once without correlation or without
\* requests.
RequestSummaryRun(reqs) ==
    IF ~env.correlation_mode \/ Len(reqs) = 0
    THEN [text |-> <<>>, requests |-> reqs]
    ELSE [text |-> RequestFlowText(BubbleSort(reqs, 0)), requests |-> BubbleSort(reqs, 0)]

print_request_summary ==
    IF ~env.correlation_mode \/ Len(requests) = 0
    THEN UNCHANGED <<requests, output>>
    ELSE /\ requests' = RequestSummaryRun(requests).requests
         /\ output' = [output EXCEPT !.summaries = @ + 1, !.last = "summary"]

\* --------------------------------------------- command line and setup
\* static struct env of multilayer_io_tracer.c and of minio_tracer.c
DefaultEnv(p) ==
    [realtime |-> TRUE, correlation_mode |-> (p = "minio_tracer"), duration |-> 0,
     minio_only |-> (p = "minio_tracer"), auto_detect_minio |-> FALSE, minio_pid |-> -1,
     trace_erasure |-> FALSE, trace_metadata |-> FALSE, output_file |-> FALSE,
     trace_system |-> ""]

Opt(key, arg) == [key |-> key, arg |-> arg]

\* the system names -s is documented for; Opt("s", n) stands for -s with the
\* n-th of them as its argument
SystemNames == <<"minio", "ceph", "etcd", "postgres", "gluster">>

\* parse_arg of multilayer_io_tracer.c (the options that change what is traced
\* or consumed)
parse_arg(e, opt) ==
    IF opt.key = "d" THEN [e EXCEPT !.duration = opt.arg]
    ELSE IF opt.key = "q" THEN [e EXCEPT !.realtime = FALSE]
    ELSE IF opt.key = "c" THEN [e EXCEPT !.correlation_mode = TRUE]
    ELSE IF opt.key = "M" THEN [e EXCEPT !.minio_only = TRUE]
    ELSE IF opt.key = "A" THEN [e EXCEPT !.auto_detect_minio = TRUE, !.minio_only = TRUE]
    ELSE IF opt.key = "p" THEN [e EXCEPT !.minio_pid = opt.arg, !.minio_only = TRUE]
    ELSE IF opt.key = "E" THEN [e EXCEPT !.trace_erasure = TRUE]
    ELSE IF opt.key = "T" THEN [e EXCEPT !.trace_metadata = TRUE]
    ELSE IF opt.key = "o" THEN [e EXCEPT !.output_file = TRUE]
    ELSE IF opt.key = "s"
    THEN [e EXCEPT !.trace_system = SystemNames[opt.arg],
                   !.minio_only = IF SystemNames[opt.arg] = "minio" THEN TRUE ELSE @]
    ELSE e

\* parse_arg of minio_tracer.c
mt_parse_arg(e, opt) ==
    IF opt.key = "a" THEN [e EXCEPT !.minio_only = FALSE]
    ELSE IF opt.key = "x" THEN [e EXCEPT !.correlation_mode = FALSE]
    ELSE IF opt.key = "d" THEN [e EXCEPT !.duration = opt.arg]
    ELSE IF opt.key = "o" THEN [e EXCEPT !.output_file = TRUE]
    ELSE e

\* argp_parse: the parser is called on every option in turn
RECURSIVE ParseArgs(_, _, _)
ParseArgs(p, e, opts) ==
    IF opts = <<>> THEN e
    ELSE ParseArgs(p, IF p = "multilayer" THEN parse_arg(e, Head(opts))
                      ELSE mt_parse_arg(e, Head(opts)), Tail(opts))

CommandLines(p) ==
    IF p = "multilayer"
    THEN {<<>>,
          <<Opt("M", 0), Opt("c", 0), Opt("d", 1)>>,
          <<Opt("p", 2), Opt("p", 1), Opt("c", 0), Opt("E", 0), Opt("T", 0)>>,
          <<Opt("A", 0), Opt("q", 0), Opt("o", 0)>>,
          <<Opt("A", 0), Opt("p", 2), Opt("s", 1)>>}
    ELSE {<<>>, <<Opt("x", 0), Opt("d", 1), Opt("o", 0)>>}

\* find_minio_processes: the pids "pgrep -x minio" prints
PgrepMinio(cm) == {PidOf(PidTgid(t)) : t \in {u \in TaskIds : cm[u] = COMM_MINIO}}

\* configure_minio_tracing: the configuration record and the pid set it installs
configure_minio_tracing(cm, e) ==
    LET mode == IF e.minio_only
                THEN IF e.minio_pid > 0 THEN MINIO_TRACE_PID
                     ELSE IF e.auto_detect_minio
                          THEN IF PgrepMinio(cm) = {} THEN MINIO_TRACE_NAME ELSE MINIO_TRACE_PID
                          ELSE MINIO_TRACE_NAME
                ELSE MINIO_TRACE_OFF
        pids == IF e.minio_only
                THEN IF e.minio_pid > 0 THEN {e.minio_pid}
                     ELSE IF e.auto_detect_minio THEN PgrepMinio(cm) ELSE {}
                ELSE {}
    IN [config |-> [trace_mode |-> mode,
                    trace_erasure |-> Bool2Int(e.trace_erasure),
                    trace_metadata |-> Bool2Int(e.trace_metadata)],
        pids |-> pids]

\* minio_tracer has no configuration map; the record is left zeroed there
ZeroConfig == [trace_mode |-> 0, trace_erasure |-> 0, trace_metadata |-> 0]

\* The state in which main() starts its setup, for tracer p started with the
\* command line cl while the tasks have the comms cm: the arguments are
\* parsed, nothing is loaded or installed yet.
Start(p, cl, cm) ==
    /\ prog = p
    /\ comms = cm
    /\ exited = {}
    /\ env = ParseArgs(p, DefaultEnv(p), cl)
    /\ config = ZeroConfig
    /\ minio_pids = {}
    /\ now = 0
    /\ request_tracking = <<>>
    /\ io_start_times = <<>>
    /\ request_branches = {}
    /\ ring = <<>>
    /\ bio_log = [submits |-> [b \in BioAddrs |-> 0], completes |-> [b \in BioAddrs |-> 0]]
    /\ stats = [l \in 0..5 |-> ZeroLayerStats]
    /\ minio_stats = ZeroMinioStats
    /\ requests = <<>>
    /\ exiting = FALSE
    /\ output = [lines |-> 0, summaries |-> 0, last |-> "nothing"]
    /\ pc = "fopen"
    /\ err = 0
    /\ status = 0

Programs == {"multilayer", "minio_tracer"}

Init == \E p \in Programs : \E cl \in CommandLines(p) : Start(p, cl, Tasks(p))

\* ------------------------------------------------------ main(): the setup
kernel == <<now, request_tracking, io_start_times, request_branches, bio_log>>

\* what the libbpf calls return when they fail, and errno of an interrupted call
LibbpfErrors == {-22}
EINTR == 4

\* where main() is while it sets up: the call it is about to make
SetupSteps == {"fopen", "setrlimit", "open", "load", "configure", "attach", "ring_buffer__new"}

\* A faulty variant of the return statement of main(): the sign test is turned
\* round.
ReturnsPositiveErr(e) == IF e > 0 THEN e ELSE 0

\* "return err < 0 ? -err : 0"
ReturnFromMain(e) == IF e < 0 THEN -e ELSE 0

\* "return 1" before anything was opened
ReturnOne ==
    /\ pc' = "done"
    /\ status' = 1
    /\ UNCHANGED <<setup, kernel, ring, stats, minio_stats, requests, exiting, output, err>>

\* "goto cleanup" with err = e during the setup: no summary, the exit status
\* is computed from err
FailSetup(e) ==
    /\ pc' = "done"
    /\ err' = e
    /\ status' = ReturnFromMain(e)
    /\ UNCHANGED <<kernel, ring, stats, minio_stats, requests, exiting, output>>

\* the setup goes on with the next step
GoOn(step) ==
    /\ pc' = step
    /\ UNCHANGED <<setup, kernel, ring, stats, minio_stats, requests, exiting, output,
                   err, status>>

\* output_fp = fopen(env.output_file, "w"), or stdout without -o
OpenOutput ==
    /\ pc = "fopen"
    /\ \E ok \in BOOLEAN : IF env.output_file /\ ~ok THEN ReturnOne ELSE GoOn("setrlimit")

BumpMemlock ==
    /\ pc = "setrlimit"
    /\ \E ok \in BOOLEAN : IF ok THEN GoOn("open") ELSE ReturnOne

OpenSkel ==
    /\ pc = "open"
    /\ \E ok \in BOOLEAN : IF ok THEN GoOn("load") ELSE ReturnOne

\* minio_tracer has no configuration to install
LoadSkel ==
    /\ pc = "load"
    /\ \E e \in {0} \cup LibbpfErrors :
          IF e = 0
          THEN GoOn(IF prog = "multilayer" THEN "configure" ELSE "attach")
          ELSE FailSetup(e) /\ UNCHANGED setup

\* configure_minio_tracing returns -1 when the record cannot be installed; the
\* pids were put in their map before that
ConfigureTracing ==
    /\ pc = "configure"
    /\ minio_pids' = configure_minio_tracing(comms, env).pids
    /\ UNCHANGED <<prog, comms, exited, env>>
    /\ \E ok \in BOOLEAN :
          IF ok
          THEN /\ config' = configure_minio_tracing(comms, env).config
               /\ pc' = "attach"
               /\ UNCHANGED <<kernel, ring, stats, minio_stats, requests, exiting, output,
                              err, status>>
          ELSE FailSetup(-1) /\ UNCHANGED config

AttachSkel ==
    /\ pc = "attach"
    /\ \E e \in {0} \cup LibbpfErrors :
          IF e = 0 THEN GoOn("ring_buffer__new") ELSE FailSetup(e) /\ UNCHANGED setup

\* ring_buffer__new, then print_header
NewRingBuffer ==
    /\ pc = "ring_buffer__new"
    /\ \E ok \in BOOLEAN :
          IF ok
          THEN /\ pc' = "poll"
               /\ output' = [output EXCEPT !.last = "header"]
               /\ UNCHANGED <<setup, kernel, ring, stats, minio_stats, requests, exiting,
                              err, status>>
          ELSE FailSetup(-1) /\ UNCHANGED setup

\* ------------------------------------------------------ main(): the loop
\* ring_buffer__poll hands the oldest event to handle_event
Consume ==
    /\ pc = "poll"
    /\ ring # <<>>
    /\ IF prog = "multilayer" THEN handle_event(Head(ring)) ELSE mt_handle_event(Head(ring))
    /\ ring' = Tail(ring)
    /\ UNCHANGED <<setup, kernel, exiting, pc, err, status>>

\* print_amplification_summary (and print_minio_summary, which only prints)
print_amplification_summary ==
    /\ stats' = SummaryRun(stats, minio_stats, requests).stats
    /\ output' = [output EXCEPT !.summaries = @ + 1, !.last = "summary"]

\* sig_handler of multilayer_io_tracer.c prints the summary itself, once
sig_handler ==
    /\ prog = "multilayer"
    /\ pc = "poll"
    /\ ~exiting
    /\ exiting' = TRUE
    /\ print_amplification_summary
    /\ UNCHANGED <<setup, kernel, ring, minio_stats, requests, pc, err, status>>

\* update_stats as far as the signal finds it when it arrives in the middle:
\* after "s->total_bytes += e->size", before "s->aligned_bytes += ..."
update_stats_begun(st, e) ==
    IF e.layer > 5 THEN st
    ELSE [st EXCEPT ![e.layer].total_events = @ + 1, ![e.layer].total_bytes = @ + e.size]

\* The signal is delivered to the one thread of the consumer wherever that
\* thread is: here inside update_stats for the oldest event of the ring.  The
\* handler prints the summary from the statistics as they are at that point
\* and stores the factors it printed; then update_stats and handle_event
\* go on to the end.
sig_handler_in_update_stats ==
    /\ prog = "multilayer"
    /\ pc = "poll"
    /\ ~exiting
    /\ ring # <<>>
    /\ exiting' = TRUE
    /\ LET e == Head(ring)
           printed == SummaryRun(update_stats_begun(stats, e), minio_stats, requests).stats
           after == update_stats(stats, minio_stats, requests, env.correlation_mode, e)
       IN /\ stats' = [l \in DOMAIN stats |->
                          [after.stats[l] EXCEPT
                             !.amplification_factor = printed[l].amplification_factor]]
          /\ minio_stats' = after.minio_stats
          /\ requests' = after.requests
          /\ output' = IF env.realtime
                       THEN [output EXCEPT !.summaries = @ + 1, !.lines = @ + 1,
                                           !.last = "line"]
                       ELSE [output EXCEPT !.summaries = @ + 1, !.last = "summary"]
    /\ ring' = Tail(ring)
    /\ UNCHANGED <<setup, kernel, pc, err, status>>

\* sig_handler of minio_tracer.c only sets the flag
mt_sig_handler ==
    /\ prog = "minio_tracer"
    /\ pc = "poll"
    /\ ~exiting
    /\ exiting' = TRUE
    /\ UNCHANGED <<setup, kernel, ring, stats, minio_stats, requests, output, pc, err,
                   status>>

\* After the loop: the summary is printed, then cleanup frees the ring and
\* destroys the BPF object with its maps and probes, and main() returns.
Finish(e) ==
    /\ pc' = "done"
    /\ err' = e
    /\ status' = ReturnFromMain(e)
    /\ IF prog = "multilayer"
       THEN print_amplification_summary /\ UNCHANGED requests
       ELSE print_request_summary /\ UNCHANGED stats
    /\ ring' = <<>>
    /\ request_tracking' = <<>>
    /\ io_start_times' = <<>>
    /\ request_branches' = {}
    /\ UNCHANGED <<setup, now, bio_log, minio_stats, exiting>>

\* A faulty variant of the end of the loop: the loop is left although nothing
\* asked for it.
LeaveLoopUnasked ==
    /\ pc = "poll"
    /\ Finish(0)

\* The loop is left because "while (!exiting)" is found false, or because the
\* signal interrupted ring_buffer__poll, which returns -EINTR: err is set to 0
\* before the break.
LeaveLoop ==
    /\ pc = "poll"
    /\ exiting
    /\ \E e \in {0, -EINTR} : Finish(IF e = -EINTR THEN 0 ELSE e)

\* ring_buffer__poll fails with another error: break with err < 0
PollError ==
    /\ pc = "poll"
    /\ \E e \in LibbpfErrors : Finish(e)

\* the duration check after a poll: multilayer sets the flag, minio_tracer breaks
DurationElapsed ==
    /\ pc = "poll"
    /\ env.duration > 0
    /\ IF prog = "multilayer"
       THEN /\ ~exiting
            /\ exiting' = TRUE
            /\ UNCHANGED <<setup, kernel, ring, stats, minio_stats, requests, output, pc,
                           err, status>>
       ELSE Finish(0)

\* The end of a loop iteration with -A: in a second that is a multiple of ten
\* since the start (the first iterations are) find_minio_processes runs again
\* and puts every pid "pgrep -x minio" prints into the minio_pids map.  The
\* wall clock is not part of the state: the step can be taken at any time.
RefreshPids ==
    /\ pc = "poll"
    /\ prog = "multilayer"
    /\ env.auto_detect_minio
    /\ minio_pids' = minio_pids \cup (PgrepMinio(comms) \ {PidOf(PidTgid(t)) : t \in exited})
    /\ UNCHANGED <<prog, comms, exited, env, config, kernel, ring, consumer>>

\* ------------------------------------------------------------- next
\* Hook firings are followed while the consumer polls: once the loop is left
\* nothing reads the ring any more, and cleanup detaches the probes.
Attached == pc = "poll"

\* A task of the machine exits.  Neither BPF program attaches a probe to the
\* exit of a task and neither consumer looks for dead tasks, so nothing but
\* the set of exited tasks changes; an exited task fires no probe.  The exits
\* followed are those of a task that holds a request context; the tracer's own
\* task is not among the tasks that may exit.
MayExit == {1}
TaskExit ==
    /\ Attached
    /\ \E t \in MayExit \ exited :
          /\ PidTgid(t) \in DOMAIN request_tracking
          /\ exited' = exited \cup {t}
    /\ UNCHANGED <<prog, comms, env, config, minio_pids, kernel, ring, consumer>>

Running == TaskIds \ exited

\* Time passes without a probe firing.  The idle span followed is the one
\* after a first firing that installed a request context and whose event
\* still waits in the ring: the ids generated later are then compared with
\* one generated IdleSpan + 1 ticks before.
TimePasses ==
    /\ Attached
    /\ now = 1
    /\ DOMAIN request_tracking # {}
    /\ ring # <<>>
    /\ now' = now + IdleSpan
    /\ UNCHANGED <<setup, request_tracking, io_start_times, request_branches, bio_log,
                   ring, consumer>>

AppWrite == Attached /\ \E t \in Running, n \in Counts : trace_app_write_enter(t, n)
AppRead == Attached /\ \E t \in Running, n \in Counts : trace_app_read_enter(t, n)
OpenAt == Attached /\ \E t \in Running, path \in Paths : trace_minio_openat(t, path)
VfsRead == Attached /\ \E t \in Running, n \in Counts : trace_vfs_read(t, n)
VfsWrite == Attached /\ \E t \in Running, n \in Counts : trace_vfs_write(t, n)
FsSync == Attached /\ \E t \in Running : trace_fs_sync(t)
Splice == Attached /\ \E t \in Running, n \in Counts : trace_minio_splice(t, n)
BioSubmit ==
    Attached /\ \E t \in Running, b \in BioAddrs \cup {0}, n \in BioSizes(prog) :
                    trace_bio_submit(t, b, n)
BioEndio == Attached /\ \E b \in BioAddrs \cup {0}, n \in Residuals : trace_bio_complete(b, n)

MtWrite == Attached /\ \E t \in Running, n \in Counts : trace_minio_write(t, n)
MtRead == Attached /\ \E t \in Running, n \in Counts : trace_minio_read(t, n)
MtVfsOpen == Attached /\ \E t \in Running : trace_minio_metadata(t)
MtVfsRead == Attached /\ \E t \in Running, n \in Counts : trace_vfs_read_correlated(t, n)
MtVfsWrite == Attached /\ \E t \in Running, n \in VfsCounts : trace_vfs_write_correlated(t, n)
MtFsSync == Attached /\ \E t \in Running : trace_fs_sync_correlated(t)
MtBioSubmit ==
    Attached /\ \E t \in Running, b \in BioAddrs \cup {0}, n \in BioSizes(prog) :
                    trace_bio_submit_correlated(t, b, n)
MtBioEndio ==
    Attached /\ \E b \in BioAddrs \cup {0}, n \in Residuals : trace_bio_complete_correlated(b, n)

Next ==
    \/ AppWrite \/ AppRead \/ OpenAt \/ VfsRead \/ VfsWrite \/ FsSync \/ Splice
    \/ BioSubmit \/ BioEndio
    \/ MtWrite \/ MtRead \/ MtVfsOpen \/ MtVfsRead \/ MtVfsWrite \/ MtFsSync
    \/ MtBioSubmit \/ MtBioEndio
    \/ OpenOutput \/ BumpMemlock \/ OpenSkel \/ LoadSkel \/ ConfigureTracing
    \/ AttachSkel \/ NewRingBuffer
    \/ Consume \/ sig_handler \/ mt_sig_handler \/ DurationElapsed \/ LeaveLoop
    \/ PollError \/ RefreshPids \/ TaskExit \/ TimePasses
    \/ sig_handler_in_update_stats

Spec == Init /\ [][Next]_vars

\* The loop tests "exiting" after every poll, and a poll returns after 100 ms
\* at the latest: a loop that can be left is left.  Wall-clock time passes, so
\* a deadline that can elapse does.
SpecLive == Init /\ [][Next]_vars /\ WF_vars(LeaveLoop) /\ WF_vars(DurationElapsed)

\* ------------------------------------------- name classification runs
\* Comms for the second process that tell the ways of matching a name apart:
\* no match, "minio" inside and at the very end of a full-length comm, "minio"
\* followed by a space, by another character, and cut short.
TestComms ==
    {COMM_BASH,
     <<"x", "m", "i", "n", "i", "o">>,
     <<"x", "x", "x", "x", "x", "x", "x", "x", "x", "x", "m", "i", "n", "i", "o">>,
     <<"m", "i", "n", "i", "o", " ", "s">>,
     <<"m", "i", "n", "i", "o", "-", "s", "r", "v">>,
     <<"m", "i", "n", "i">>}

\* the command line that selects tracing by name: -M for multilayer_io_tracer;
\* minio_tracer classifies by name whatever its options
ByNameLine(p) ==
    IF p = "multilayer" THEN <<Opt("M", 0), Opt("c", 0)>> ELSE <<>>

InitByName ==
    \E p \in Programs : \E c \in TestComms :
        Start(p, ByNameLine(p), [Tasks(p) EXCEPT ![2] = c])

\* the setup, the hooks, the consumer and the end of the loop by a poll
\* error; no signal, no duration
NextByName ==
    \/ AppWrite \/ AppRead \/ OpenAt \/ VfsRead \/ VfsWrite \/ FsSync \/ Splice
    \/ BioSubmit \/ BioEndio
    \/ MtWrite \/ MtRead \/ MtVfsOpen \/ MtVfsRead \/ MtVfsWrite \/ MtFsSync
    \/ MtBioSubmit \/ MtBioEndio
    \/ OpenOutput \/ BumpMemlock \/ OpenSkel \/ LoadSkel \/ ConfigureTracing
    \/ AttachSkel \/ NewRingBuffer
    \/ Consume \/ PollError

SpecByName == InitByName /\ [][NextByName]_vars

\* =============================================================== properties
RECURSIVE SumOver(_, _)
SumOver(f, S) ==
    IF S = {} THEN 0
    ELSE LET x == CHOOSE y \in S : TRUE IN f[x] + SumOver(f, S \ {x})

Submits == SumOver(bio_log.submits, BioAddrs)
Completions == SumOver(bio_log.completes, BioAddrs)

\* the event a step has just put in the ring, if it put one
Emits == Len(ring') = Len(ring) + 1
Emitted == ring'[Len(ring')]

\* C1: Completion accounting, part 1.  In every reachable state the number of
\* DEV_BIO_COMPLETE events emitted is at most the number of DEV_BIO_SUBMIT
\* events emitted, and this holds per bio handle: a handle with no submit
\* event has no completion event.
C1_CompletionsWithinSubmits ==
    /\ Completions <= Submits
    /\ \A b \in BioAddrs : bio_log.completes[b] <= bio_log.submits[b]

\* C1 happens: a completion event was emitted for a handle while an entry of
\* an application-layer probe (a pid_tgid key) sits in the same timing table.
C1_Witness ==
    /\ \E b \in BioAddrs : bio_log.completes[b] >= 1
    /\ \E k \in DOMAIN io_start_times : k \notin BioAddrs

\* C2: Completion accounting, part 2, as the specification states it: submit
\* events minus completion events never exceed MAX_ENTRIES, the capacity of
\* io_start_times.  It is stated for the runs in which no handle is submitted
\* twice, so that what exceeds the capacity is the number of outstanding bios.
C2_OutstandingWithinCapacity ==
    (\A b \in BioAddrs : bio_log.submits[b] <= 1) => Submits - Completions <= MAX_ENTRIES

\* C3: Branch bounds, as the specification states them: every flow record of
\* the minio_tracer consumer has 0 <= completed_branches <= total_branches.
C3_BranchBounds ==
    prog = "minio_tracer" =>
        \A i \in 1..Len(requests) :
            /\ 0 <= requests[i].completed_branches
            /\ requests[i].completed_branches <= requests[i].total_branches

\* C4: Cross-layer identity, as the specification states it: when a probe above
\* the application layer (openat, splice, VFS read/write, fsync, bio submit)
\* emits an event for a task that has an entry in request_tracking, the event's
\* request_id is that entry's request id.
C4_UpperLayersCarryContextId ==
    [][Emits =>
         LET e == Emitted
             pid_tgid == e.pid * W32 + e.tid
         IN (/\ e.layer > LAYER_APPLICATION
             /\ e.event_type # EVENT_DEV_BIO_COMPLETE
             /\ pid_tgid \in DOMAIN request_tracking)
            => e.request_id = request_tracking[pid_tgid].app_request_id]_vars

C6_NoFlowForIdZero ==
    \A i \in 1..Len(requests) : requests[i].request_id # 0

\* C7: Configuration gating, as the specification states it: while the
\* installed configuration of multilayer_io_tracer has trace_mode = off, no
\* step puts an event in the ring.
C7_OffEmitsNothing ==
    [][(prog = "multilayer" /\ config.trace_mode = MINIO_TRACE_OFF) => ~Emits]_vars

\* what the probes of the running tracer take task t for
Classified(t) ==
    IF prog = "multilayer" THEN is_minio_process(TaskComm(t), PidOf(PidTgid(t)))
    ELSE mt_is_minio_process(TaskComm(t))

\* multilayer_io_tracer runs in by_name mode; minio_tracer has no other mode
ByName == prog = "minio_tracer" \/ config.trace_mode = MINIO_TRACE_NAME

\* pat occurs somewhere in the string s
Contains(s, pat) ==
    \E i \in 1..(Len(s) - Len(pat) + 1) : SubSeq(s, i, i + Len(pat) - 1) = pat

\* s begins with pat
StartsWith(s, pat) == Len(s) >= Len(pat) /\ SubSeq(s, 1, Len(pat)) = pat

\* every event in the ring is a bio completion or names a task that is a
\* target, and every flow record carries the id of no request (0) or an id
\* generated for a target
OnlyTargetsSeen ==
    /\ \A i \in 1..Len(ring) :
          \/ ring[i].event_type = EVENT_DEV_BIO_COMPLETE
          \/ \E t \in TaskIds :
                Classified(t) /\ ring[i].pid = PidOf(PidTgid(t)) /\ ring[i].comm = TaskComm(t)
    /\ \A i \in 1..Len(requests) :
          \/ requests[i].request_id = 0
          \/ \E t \in TaskIds : Classified(t) /\ requests[i].request_id \div W32 = TidOf(PidTgid(t))

\* C8: Classifier by name, as the code has it.  multilayer_io_tracer in by_name
\* mode takes a task for a target iff its comm contains "minio" (its own comm
\* does not); minio_tracer takes a task for a target iff its comm is "minio" or
\* begins with "minio ", which leaves out "minio_tracer" and every other comm
\* that only contains "minio".  In both, every event in the ring but a bio
\* completion, and every flow record with a request id, comes from a target.
C8_ByNameClassifier ==
    ByName =>
        /\ \A t \in TaskIds :
              Classified(t) <=>
                  IF prog = "multilayer" THEN Contains(TaskComm(t), COMM_MINIO)
                  ELSE TaskComm(t) = COMM_MINIO
                       \/ StartsWith(TaskComm(t), COMM_MINIO \o <<" ">>)
        /\ OnlyTargetsSeen

\* C8 happens: by name, with a second process whose comm holds "minio" but not
\* at its start and the tracer's own process both present, events of a target
\* have been consumed into the statistics or the flow table and more wait in
\* the ring.
C8_Witness ==
    /\ ByName
    /\ Contains(TaskComm(2), COMM_MINIO) /\ ~StartsWith(TaskComm(2), COMM_MINIO)
    /\ ring # <<>>
    /\ output.lines >= 1
    /\ (prog = "multilayer" => stats[LAYER_APPLICATION].total_events >= 1)
    /\ Len(requests) >= 1

\* C8 as the specification states it: by name, a task is a target iff its comm
\* contains "minio" and is not the tracer's own name.
C8_SubstringClassifier ==
    ByName =>
        \A t \in TaskIds :
            Classified(t) <=>
                (Contains(TaskComm(t), COMM_MINIO) /\ TaskComm(t) # TracerComm(prog))

\* C9: Self-exclusion, as the specification states it: no event in the ring has
\* the comm of the tracer's own process.
C9_NoEventOfTracer ==
    \A i \in 1..Len(ring) : ring[i].comm # TracerComm(prog)

\* C10: Request-context table saturation, as the specification states it: when
\* an application-layer entry probe emits an event for a task that has no entry
\* in request_tracking while the table is full, the event has request_id = 0.
C10_SaturatedEventHasIdZero ==
    [][Emits =>
         LET e == Emitted
             pid_tgid == e.pid * W32 + e.tid
         IN (/\ e.layer = LAYER_APPLICATION
             /\ pid_tgid \notin DOMAIN request_tracking
             /\ Cardinality(DOMAIN request_tracking) = MAX_ENTRIES)
            => e.request_id = 0]_vars

\* the step is the consumer taking the oldest event out of the ring
Consumes == pc' = "poll" /\ Len(ring') = Len(ring) - 1

\* C11: Flow-table eviction, as the specification states it: when the consumer
\* takes an event with an unseen non-zero request_id while the flow table is
\* full (an event for which it makes a record while there is room), the table
\* holds a record for that request_id afterwards, and never more than
\* MAX_REQUESTS records.
C11_FullTableAdmitsNewId ==
    [][(/\ Consumes
        /\ env.correlation_mode
        /\ Len(requests) = MAX_REQUESTS
        /\ Head(ring).request_id # 0
        /\ FindRequest(requests, Head(ring).request_id) = 0
        /\ (prog = "multilayer" => Head(ring).layer = LAYER_APPLICATION))
       => /\ FindRequest(requests', Head(ring).request_id) # 0
          /\ Len(requests') <= MAX_REQUESTS]_vars

\* ring_buffer__poll calling update_stats for each event of evs in turn, from
\* the consumer state (st, ms, reqs): the state after the last one
RECURSIVE Deliver(_, _, _, _, _)
Deliver(st, ms, reqs, correlation_mode, evs) ==
    IF evs = <<>> THEN [stats |-> st, minio_stats |-> ms, requests |-> reqs]
    ELSE LET after == update_stats(st, ms, reqs, correlation_mode, Head(evs))
         IN Deliver(after.stats, after.minio_stats, after.requests, correlation_mode,
                    Tail(evs))

\* the per-layer statistics the summary is computed from
LayerCounters(st) ==
    [l \in DOMAIN st |->
        [event_count |-> st[l].total_events, total_bytes |-> st[l].total_bytes,
         aligned_bytes |-> st[l].aligned_bytes, metadata_ops |-> st[l].metadata_ops,
         journal_ops |-> st[l].journal_ops, cache_hits |-> st[l].cache_hits,
         total_latency |-> st[l].total_latency]]

\* C12: Global layer statistics are unaffected by correlation state.  From
\* every reachable state of the multilayer_io_tracer consumer, delivering the
\* events that wait in the ring gives the same per-layer statistics with
\* correlation on and the flow table as it is (saturated or not) as with
\* correlation off and no flow table.
C12_LayerStatsIgnoreCorrelation ==
    prog = "multilayer" =>
        \A correlation_mode \in BOOLEAN :
            LayerCounters(Deliver(stats, minio_stats, requests, correlation_mode, ring).stats)
                = LayerCounters(Deliver(stats, minio_stats, <<>>, FALSE, ring).stats)

\* C12 happens: correlation is on, the flow table is full, events were counted,
\* and the next event in the ring carries a request id the table does not hold.
C12_Witness ==
    /\ prog = "multilayer"
    /\ env.correlation_mode
    /\ Len(requests) = MAX_REQUESTS
    /\ stats[LAYER_APPLICATION].total_events >= 2
    /\ ring # <<>>
    /\ Head(ring).request_id # 0
    /\ FindRequest(requests, Head(ring).request_id) = 0

\* C13: Loss accounting, as the specification states it: an event dropped
\* because the ring has no room is counted.  The maps and the consumer's
\* tables are all the state the tracer has, so while the ring is full a
\* vfs_write of a traced task - whose event is dropped - changes that state.
C13_DropIsCounted ==
    (/\ prog = "multilayer"
     /\ Attached
     /\ CanFire
     /\ ~RingHasRoom
     /\ \E t \in Running : ~MlSkips(t))
    => ENABLED <<VfsWrite>>_vars

\* the orders in which the events of the sequence evs can be delivered
Orders(evs) ==
    {[i \in 1..Len(evs) |-> evs[pi[i]]] :
        pi \in {f \in [1..Len(evs) -> 1..Len(evs)] :
                   \A i, j \in 1..Len(evs) : i # j => f[i] # f[j]}}

\* C14: Global statistics are order-independent.  From every reachable state
\* of the multilayer_io_tracer consumer, every order of delivering the events
\* that wait in the ring ends in the same per-layer statistics and the same
\* MinIO totals.
C14_StatsOrderIndependent ==
    prog = "multilayer" =>
        \A evs \in Orders(ring) :
            LET there == Deliver(stats, minio_stats, requests, env.correlation_mode, evs)
                here == Deliver(stats, minio_stats, requests, env.correlation_mode, ring)
            IN there.stats = here.stats /\ there.minio_stats = here.minio_stats

\* C14 happens: two events of one layer that differ in size and latency wait
\* in the ring while that layer has counted events already.
C14_Witness ==
    /\ prog = "multilayer"
    /\ Len(ring) >= 2
    /\ ring[1].layer = ring[2].layer
    /\ ring[1].size # ring[2].size
    /\ ring[1].latency_ns # ring[2].latency_ns
    /\ stats[ring[1].layer].total_events >= 1

\* the flow table of the running consumer after the events of evs were
\* delivered in this order
RECURSIVE MtDeliver(_, _)
MtDeliver(reqs, evs) ==
    IF evs = <<>> THEN reqs ELSE MtDeliver(MtFlowsAfter(reqs, Head(evs)), Tail(evs))

FlowsAfter(evs) ==
    IF prog = "multilayer"
    THEN Deliver(stats, minio_stats, requests, env.correlation_mode, evs).requests
    ELSE MtDeliver(requests, evs)

\* the record of a request in a flow table, or that there is none
RecordOf(reqs, request_id) ==
    IF FindRequest(reqs, request_id) = 0 THEN <<>>
    ELSE <<reqs[FindRequest(reqs, request_id)]>>

\* the events waiting in the ring all carry one request id, which is not 0
OneRequestWaits ==
    /\ ring # <<>>
    /\ ring[1].request_id # 0
    /\ \A i \in 1..Len(ring) : ring[i].request_id = ring[1].request_id

\* C15: Flow reconstruction does not depend on ring delivery order, as the
\* specification states it: when the events waiting in the ring share one
\* non-zero request_id, every order of delivering them ends in the same flow
\* record for that request.
C15_FlowOrderIndependent ==
    (env.correlation_mode /\ OneRequestWaits) =>
        \A evs \in Orders(ring) :
            RecordOf(FlowsAfter(evs), ring[1].request_id)
                = RecordOf(FlowsAfter(ring), ring[1].request_id)

\* C16: Graceful shutdown, as the specification states it: once the flag of
\* the signal handler is set while the consumer polls, the consumer eventually
\* has left the loop and released the ring, and - unless a poll failed - has
\* exit status 0 with the summary as the last thing written.
C16_GracefulShutdown ==
    (pc = "poll" /\ exiting)
        ~> (/\ pc = "done"
            /\ ring = <<>>
            /\ (err \notin LibbpfErrors => status = 0 /\ output.last = "summary"))

C19_SummaryIdempotent ==
    /\ prog = "multilayer" =>
          LET first == SummaryRun(stats, minio_stats, requests)
          IN SummaryRun(first.stats, minio_stats, requests).text = first.text
    /\ prog = "minio_tracer" =>
          \A reqs \in Orders(requests) :
              LET first == RequestSummaryRun(reqs)
              IN RequestSummaryRun(first.requests).text = first.text

\* C19 happens: multilayer_io_tracer has run its printer twice (in the signal
\* handler and after the loop) and the first run stored a factor that was not
\* stored before.
C19_Witness ==
    /\ prog = "multilayer"
    /\ pc = "done"
    /\ output.summaries = 2
    /\ stats[LAYER_APPLICATION].total_bytes > 0
    /\ \E l \in 2..5 : stats[l].amplification_factor[1] > 0

\* C20: Single-install configuration.  The configuration record and the
\* target-pid set are written before the probes are attached (by the step
\* before the attach in multilayer_io_tracer.c; minio_tracer.c has neither), and
\* no step taken while the probes are attached changes either of them.
C20_ConfigWrittenOnce ==
    [][/\ (prog = "multilayer" /\ pc' = "attach") =>
             (pc = "configure" /\ config' = configure_minio_tracing(comms, env).config)
       /\ (pc = "poll" /\ pc' = "poll") => (config' = config /\ minio_pids' = minio_pids)]_vars

\* C21: trace_metadata gating.  While the installed configuration of
\* multilayer_io_tracer has trace_metadata off, no probe submits the
\* filesystem-layer event of the fsync-range probe, whatever the task and the
\* trace mode.
C21_MetadataGate ==
    [][(prog = "multilayer" /\ Attached /\ config.trace_metadata = 0 /\ Emits)
           => ~(Emitted.layer = LAYER_FILESYSTEM /\ Emitted.event_type = EVENT_FS_SYNC)]_vars

\* C22: trace_erasure gating.  While the installed configuration of
\* multilayer_io_tracer has trace_erasure off, no probe submits a
\* storage-service xl.meta or erasure-write event.
C22_ErasureGate ==
    [][(prog = "multilayer" /\ Attached /\ config.trace_erasure = 0 /\ Emits)
           => Emitted.event_type \notin {EVENT_MINIO_XL_META, EVENT_MINIO_ERASURE_WRITE}]_vars

\* C23: Correlation toggle.  With correlation off, no event the consumer
\* handles changes the flow table: no record is created and no field of a
\* record is modified, DEV_BIO_COMPLETE events included.
C23_NoFlowUpdateWithoutCorrelation ==
    [][(Consumes /\ ~env.correlation_mode) => requests' = requests]_vars

\* the pids a command line gives with -p
PidsGiven(cl) == {cl[i].arg : i \in {j \in 1..Len(cl) : cl[j].key = "p"}}

\* C24: -p is repeatable.  Once multilayer_io_tracer, started with a command
\* line that gives -p one or more times, has installed its configuration and
\* attached, the trace mode is by pid and the target-pid set holds every pid
\* given.
C24_EveryGivenPidIsTarget ==
    \A cl \in CommandLines(prog) :
        (/\ prog = "multilayer"
         /\ Attached
         /\ env = ParseArgs(prog, DefaultEnv(prog), cl)
         /\ PidsGiven(cl) # {})
            => (config.trace_mode = MINIO_TRACE_PID /\ PidsGiven(cl) \subseteq minio_pids)

\* the system tag the filter of -s lets through for a system name (the
\* comparisons of handle_event in the first version of multilayer_io_tracer.c)
SystemTypeOf(name) ==
    IF name = "minio" THEN SYSTEM_TYPE_MINIO
    ELSE IF name = "ceph" THEN SYSTEM_TYPE_CEPH
    ELSE IF name = "etcd" THEN SYSTEM_TYPE_ETCD
    ELSE IF name = "postgres" THEN SYSTEM_TYPE_POSTGRES
    ELSE SYSTEM_TYPE_GLUSTER

\* C25: -s filters to one system tag.  When multilayer_io_tracer runs with
\* -s <name>, handling an event whose system tag is not that of the named
\* system changes neither the layer statistics nor the flow table nor the
\* stream output.
C25_SystemFilter ==
    [][(/\ Consumes
        /\ prog = "multilayer"
        /\ env.trace_system # ""
        /\ Head(ring).system_type # SystemTypeOf(env.trace_system))
           => (stats' = stats /\ minio_stats' = minio_stats /\ requests' = requests
               /\ output' = output)]_vars

\* C26: Headline amplification.  Whenever a summary has been printed at the
\* end of a run from statistics with application bytes > 0, it holds one
\* headline number, and that number is the device-layer bytes over the
\* application-layer bytes (as "%.2f" prints it), also when the device-layer
\* total is 0.
C26_HeadlineIsDeviceOverApp ==
    (pc = "done" /\ output.last = "summary") =>
        /\ (prog = "multilayer" /\ stats[LAYER_APPLICATION].total_bytes > 0) =>
              /\ Headline(stats) # <<>>
              /\ Headline(stats)[1] = Hundredths(<<stats[LAYER_DEVICE].total_bytes,
                                                   stats[LAYER_APPLICATION].total_bytes>>)
        /\ (prog = "minio_tracer" /\ SumOverRows(requests, "app_bytes") > 0) =>
              /\ RequestHeadline(requests) # <<>>
              /\ RequestHeadline(requests)[1] =
                     Hundredths(<<SumOverRows(requests, "device_bytes"),
                                  SumOverRows(requests, "app_bytes")>>)

\* C27: bio_endio protocol.  A bio_endio for a handle without a timing record
\* emits nothing and changes no table.  With a record it emits at most one
\* event, a completion whose latency is the clock minus the submit time of
\* that record, and on return the handle has no record, whether or not the
\* ring had room; so a second bio_endio for the handle, with no submit in
\* between, finds no record and emits nothing.
C27_BioEndioProtocol ==
    [][\A b \in BioAddrs, n \in Residuals :
          (Attached /\ (trace_bio_complete(b, n) \/ trace_bio_complete_correlated(b, n))) =>
              /\ b \notin DOMAIN io_start_times =>
                    /\ ring' = ring
                    /\ io_start_times' = io_start_times
                    /\ request_tracking' = request_tracking
                    /\ request_branches' = request_branches
              /\ b \in DOMAIN io_start_times =>
                    /\ ring' = ring \/ Emits
                    /\ Emits => /\ SubSeq(ring', 1, Len(ring)) = ring
                                /\ Emitted.event_type = EVENT_DEV_BIO_COMPLETE
                                /\ Emitted.latency_ns = now' - io_start_times[b]
                    /\ b \notin DOMAIN io_start_times'
                    /\ DOMAIN io_start_times' = DOMAIN io_start_times \ {b}]_vars

\* C27 happens: a bio was submitted, its timing record was installed, and
\* bio_endio fired for it while the ring was full: no completion was emitted
\* and the record is gone.
C27_Witness ==
    \E b \in BioAddrs :
        /\ bio_log.submits[b] = 1
        /\ bio_log.completes[b] = 0
        /\ io_start_times = <<>>
        /\ ~RingHasRoom
        /\ now = MaxTime

\* C28: Bio-timing table contents.  In every reachable state every key of the
\* bio-timing table is the handle of a bio that was submitted and has not
\* completed since: more submit events than completion events were emitted
\* for it.  No entry comes from an application-layer read or write.
C28_TimingTableHoldsBiosInFlight ==
    \A k \in DOMAIN io_start_times :
        /\ k \in BioAddrs
        /\ bio_log.submits[k] > bio_log.completes[k]

\* C29: Request-context lifecycle.  While the probes are attached, no step
\* other than the exit of its task removes a task's request context (a
\* syscall exit does not), and no task that has exited has an entry in the
\* request-context table.
C29_NoContextOfExitedTask ==
    Attached => \A t \in exited : PidTgid(t) \notin DOMAIN request_tracking

\* some task's stored request context of minio_tracer.bpf.c has a parent: the
\* condition under which an application-layer entry is treated as a branch
ContextWithParent ==
    /\ prog = "minio_tracer"
    /\ \E k \in DOMAIN request_tracking : request_tracking[k].parent_request_id # 0

\* no probe stores a context with a parent
NoContextWithParent == ~ContextWithParent

\* C30: Branch rule at application-layer entry of minio_tracer.bpf.c.  When
\* the write or read entry probe fires for a MinIO task whose stored context
\* has parent_request_id # 0, it keeps the stored request_id, stores
\* branch_count + 1 and emits the event with that request_id, that
\* parent_request_id and branch_id = the new branch_count; otherwise it
\* generates a new request_id and stores and emits parent 0 and branch count
\* 0.  And the branch case is taken: in a run of minio_tracer some context
\* comes to have a parent.
C30_BranchRuleAtEntry ==
    /\ [][\A t \in TaskIds, n \in Counts :
            (/\ Attached
             /\ trace_minio_write(t, n) \/ trace_minio_read(t, n)
             /\ mt_is_minio_process(TaskComm(t))) =>
                LET k == PidTgid(t)
                IN IF k \in DOMAIN request_tracking
                      /\ request_tracking[k].parent_request_id # 0
                   THEN /\ request_tracking'[k] =
                              [request_tracking[k] EXCEPT
                                 !.branch_count = (@ + 1) % W32]
                        /\ Emits =>
                              /\ Emitted.request_id = request_tracking[k].app_request_id
                              /\ Emitted.parent_request_id =
                                     request_tracking[k].parent_request_id
                              /\ Emitted.branch_id = request_tracking'[k].branch_count
                   ELSE /\ k \in DOMAIN request_tracking' =>
                              /\ k \in DOMAIN request_tracking =>
                                    request_tracking'[k].app_request_id =
                                        generate_request_id(k, now')
                              /\ request_tracking'[k].parent_request_id = 0
                              /\ request_tracking'[k].branch_count = 0
                        /\ Emits =>
                              /\ Emitted.request_id = generate_request_id(k, now')
                              /\ Emitted.parent_request_id = 0
                              /\ Emitted.branch_id = 0]_vars
    /\ (prog = "minio_tracer") => <>ContextWithParent

\* C31: Event invariant.  Every event a probe of minio_tracer.bpf.c submits
\* (application, storage-service, VFS, fsync, bio submit, bio complete) has
\* branch_id < branch_count.
C31_BranchIdBelowCount ==
    [][(prog = "minio_tracer" /\ Attached /\ Emits)
           => Emitted.branch_id < Emitted.branch_count]_vars

MinOf(S) == CHOOSE x \in S : \A y \in S : x <= y
MaxOf(S) == CHOOSE x \in S : \A y \in S : x >= y

\* C32: Flow time bounds.  From every reachable flow table of minio_tracer
\* with correlation on, and for every order of delivering the events that
\* wait in the ring, every flow record afterwards has as start_time the
\* minimum and as end_time the maximum of the timestamps applied to it (those
\* it held before and those of the delivered events with its request id), and
\* start_time <= end_time.
C32_FlowTimeBounds ==
    (prog = "minio_tracer" /\ env.correlation_mode) =>
        \A evs \in Orders(ring) :
            LET after == MtDeliver(requests, evs)
            IN \A i \in 1..Len(after) :
                  LET before == RecordOf(requests, after[i].request_id)
                      applied ==
                          {evs[j].timestamp :
                              j \in {k \in 1..Len(evs) :
                                        evs[k].request_id = after[i].request_id}}
                          \cup (IF before = <<>> THEN {}
                                ELSE {before[1].start_time, before[1].end_time})
                  IN /\ applied # {}
                     /\ after[i].start_time = MinOf(applied)
                     /\ after[i].end_time = MaxOf(applied)
                     /\ after[i].start_time <= after[i].end_time

\* C32 happens: a flow record holds the times of an earlier event, and two
\* events of the same request with different timestamps wait in the ring, so
\* that they can be applied in either order.
C32_Witness ==
    /\ prog = "minio_tracer"
    /\ env.correlation_mode
    /\ Len(ring) = 2
    /\ ring[1].request_id = ring[2].request_id
    /\ ring[1].timestamp # ring[2].timestamp
    /\ \E i \in 1..Len(requests) :
          /\ requests[i].request_id = ring[1].request_id
          /\ requests[i].start_time < ring[1].timestamp

FlowIds(reqs) == {reqs[i].request_id : i \in 1..Len(reqs)}

\* C33: Flow creation.  A step of the consumer that handles an event of a
\* layer other than the application layer creates no flow record: the request
\* ids of the flow table afterwards are those it held before.
C33_FlowCreatedByApplicationEventOnly ==
    [][(Consumes /\ Head(ring).layer # LAYER_APPLICATION) =>
           (Len(requests') = Len(requests) /\ FlowIds(requests') = FlowIds(requests))]_vars

\* C34: OS-layer page alignment.  Every event a VFS read or write probe
\* submits has an aligned_size that is a multiple of 4096, at least the
\* requested count and less than 4096 above it.
C34_VfsAlignedSize ==
    [][(Attached /\ Emits /\ Emitted.event_type \in {EVENT_OS_VFS_READ, EVENT_OS_VFS_WRITE}) =>
           /\ Emitted.aligned_size % PAGE_SIZE = 0
           /\ Emitted.aligned_size >= Emitted.size
           /\ Emitted.aligned_size - Emitted.size < PAGE_SIZE]_vars

\* C35: Journal heuristic.  Every event a bio submit probe submits has
\* is_journal = 1 exactly when its size is at most 8192, and its size and
\* aligned_size are equal (both are the bio's bi_size).
C35_JournalHeuristic ==
    [][(Attached /\ Emits /\ Emitted.layer = LAYER_DEVICE
            /\ Emitted.event_type = EVENT_DEV_BIO_SUBMIT) =>
           /\ Emitted.is_journal = Bool2Int(Emitted.size <= JOURNAL_MAX)
           /\ Emitted.aligned_size = Emitted.size]_vars

\* C36: Request-id synthesis.  Every application-layer event in the ring
\* carries the id ((pid_tgid << 32) | (ts & 0xFFFFFFFF)) computed in 64-bit
\* arithmetic from its own pid and tid and the clock value of its entry: the
\* id fits the 64-bit word, its upper half is the lower half of pid_tgid (the
\* shift moves the thread id up and the process id out), and its lower half
\* is the lower half of the clock value; and a clock value that differs from
\* that one only in its upper half gives the same id.
C36_RequestIdSynthesis ==
    Attached =>
        \A i \in 1..Len(ring) :
            ring[i].layer = LAYER_APPLICATION =>
                LET pid_tgid == ring[i].pid * W32 + ring[i].tid
                IN /\ ring[i].request_id < U64
                   /\ ring[i].request_id \div W32 = pid_tgid % W32
                   /\ ring[i].request_id % W32 = ring[i].timestamp % W32
                   /\ \A ts \in {ring[i].timestamp, ring[i].timestamp + W32} :
                         generate_request_id(pid_tgid, ts) = ring[i].request_id

\* C36 happens: an application-layer event waits in the ring whose id holds
\* the thread id in its upper half and the clock value in its lower half, the
\* process id having been shifted out.
C36_Witness ==
    /\ Attached
    /\ \E i \in 1..Len(ring) :
          /\ ring[i].layer = LAYER_APPLICATION
          /\ ring[i].pid # 0
          /\ ring[i].request_id = ring[i].tid * W32 + ring[i].timestamp

\* C37: Request ids of different entries differ.  The event an
\* application-layer entry submits carries a request id that is not 0 and
\* that no application-layer event still waiting in the ring and no record of
\* the flow table, all of them made by earlier entries, carries.
C37_EntryIdsDiffer ==
    [][(Attached /\ Emits /\ Emitted.layer = LAYER_APPLICATION) =>
           /\ Emitted.request_id # 0
           /\ \A i \in 1..Len(ring) :
                 ring[i].layer = LAYER_APPLICATION =>
                     ring[i].request_id # Emitted.request_id
           /\ Emitted.request_id \notin FlowIds(requests)]_vars

\* C38: Attribution to the most recent entry, in the multilayer probes.
\* (a) Every application-layer read/write entry of a task the probes trace
\* leaves that task's context holding the id generated at this entry;
\* (b) no step removes a context while the probes stay attached; (c) every event a VFS or bio-submit probe
\* submits carries the id of the context its task holds, and 0 if it holds
\* none.  Together: such an event carries the id of the task's most recent
\* entry, and 0 only if there was none.
C38_MostRecentEntry ==
    [][prog = "multilayer" /\ Attached /\ Attached' =>
          /\ \A t \in TaskIds, n \in Counts :
                (/\ trace_app_write_enter(t, n) \/ trace_app_read_enter(t, n)
                 /\ ~MlSkips(t)) =>
                    /\ PidTgid(t) \in DOMAIN request_tracking'
                    /\ request_tracking'[PidTgid(t)].app_request_id =
                           generate_request_id(PidTgid(t), now')
          /\ DOMAIN request_tracking \subseteq DOMAIN request_tracking'
          /\ (Emits /\ Emitted.event_type \in
                          {EVENT_OS_VFS_READ, EVENT_OS_VFS_WRITE, EVENT_DEV_BIO_SUBMIT}) =>
                 Emitted.request_id = CtxFields(Emitted.pid * W32 + Emitted.tid).request_id]_vars

\* C39: One exit summary.  When a run of multilayer_io_tracer that has
\* reached the poll loop ends, by a signal, by the duration deadline or by a
\* poll error, it has emitted the exit summary exactly once.
C39_SummaryOnce ==
    [][(prog = "multilayer" /\ pc = "poll" /\ pc' = "done") => output'.summaries = 1]_vars

\* C40: Summaries come from complete states.  Every step of
\* multilayer_io_tracer that prints a summary computes it from the statistics
\* and the flow table as they are between two events: the step applies no
\* event, and the statistics afterwards are those before with the printed
\* factors stored.
C40_SummaryFromCompleteState ==
    [][(prog = "multilayer" /\ output'.summaries = output.summaries + 1) =>
           /\ stats' = SummaryRun(stats, minio_stats, requests).stats
           /\ minio_stats' = minio_stats
           /\ requests' = requests]_vars
====
